---------------------------- MODULE Spec2Model ----------------------------
(***************************************************************************)
(* A model of the NTFS artifact decoders of NTFS_Parser.                   *)
(*                                                                         *)
(* The module holds one state machine per decoder, each with its own       *)
(* initial predicate, next-state relation and specification:               *)
(*                                                                         *)
(*   SpecUsn      UsnJrnlParser.iter_records      (usnjrnl_parser.py)      *)
(*   SpecMft      MFTEntry.parse                  (mft_parser.py)          *)
(*   SpecRun      MFTEntry._parse_data_runs       (mft_parser.py)          *)
(*   SpecName     MFTEntry.to_record, $FILE_NAME  (mft_parser.py)          *)
(*   SpecPath     MFTParser.build_path_cache      (mft_parser.py)          *)
(*   SpecCollect  _extract_usnjrnl_j_stream       (image_handler.py)       *)
(*   SpecExtract  _extract_from_data_runs         (image_handler.py)       *)
(*   SpecLog      _parse_page_records             (logfile_parser.py)      *)
(*   SpecScan     _scan_for_filename              (logfile_parser.py)      *)
(*   SpecClient   _parse_client_data              (logfile_parser.py)      *)
(*   SpecSize     MFTEntry.to_record, $DATA size  (mft_parser.py)          *)
(*   SpecTimeline _iter_all_records               (analyzer.py)            *)
(*   SpecEntries  MFTParser.iter_entries          (mft_parser.py)          *)
(*   SpecCli      the subcommands                 (ntfs_parser.py)         *)
(*   SpecPart     find_ntfs_partitions            (image_handler.py)       *)
(*   SpecPages    LogFileParser.iter_records      (logfile_parser.py)      *)
(*                                                                         *)
(* The variables of the decoders that a specification does not run keep    *)
(* their idle values.                                                      *)
(***************************************************************************)
EXTENDS Integers, Sequences, FiniteSets, TLC

VARIABLES
    \* ---- UsnJrnlParser.iter_records
    usn_plan,         \* the layout of the $J file (zero runs, records, junk)
    file_pos,         \* read position of f
    buffer,           \* the local `buffer`
    processed_bytes,  \* self.processed_bytes
    total_records,    \* self.total_records
    usn_out,          \* the records yielded so far, with their file offsets
    usn_pc,           \* "read" | "scan" | "resync" | "done"
    \* ---- MFTEntry.parse
    mft_plan,         \* the layout of the entry handed to MFTEntry
    mft_data,         \* self.data
    is_valid,         \* self.is_valid
    mft_sequence,     \* self.sequence
    mft_flags,        \* self.flags
    attributes,       \* self.attributes: offset, type and length of each
    attr_visits,      \* the attributes the loop of _parse_attributes passed
    mft_pc,           \* "new" | "parsed" | "rejected"
    \* ---- MFTEntry._parse_data_runs
    run_data,         \* the `data` argument: the bytes of a run list
    run_offset,       \* offset
    current_cluster,  \* current_cluster
    runs,             \* runs
    run_pc,           \* "loop" | "done"
    \* ---- MFTEntry.to_record, the $FILE_NAME choice
    fn_attrs,         \* self.attributes of the entry being converted
    fn_index,         \* position of the loop over self.attributes
    best_filename,    \* best_filename: 0 for None, else the attribute's position
    record_filename,  \* record.filename: "" or the name of the chosen attribute
    fn_pc,            \* "loop" | "chosen" | "done"
    \* ---- MFTParser.build_path_cache
    parent_map,       \* parent_map: entry number -> parent entry number
    name_map,         \* name_map: entry number -> file name
    path_cache,       \* self.path_cache: entry number -> path
    path_todo,        \* the entries `for entry_num in name_map` has yet to visit
    path_stack,       \* the entry numbers of the active get_path calls, outermost first
    visited,          \* the visited set shared by the calls of one traversal
    path_ret,         \* the value returned by the call that ended last
    expanded_log,     \* history: the entries added to visited in this traversal, in order
    path_pc,          \* "loop" | "call" | "expanded" | "ret" | "done"
    \* ---- NTFSExtractor._extract_usnjrnl_j_stream, collecting the runs of $J
    j_base,           \* what the $UsnJrnl entry holds: "list" | "nonresident" | "resident" | "none"
    attr_list_entries, \* attr_list_entries, each the $J extent it names (0: not a $J entry)
    extent_home,      \* the MFT record that holds each $J extent
    record_parses,    \* whether ref_entry.parse() accepts each referenced record
    al_index,         \* position of the loop over attr_list_entries
    all_data_runs,    \* all_data_runs
    real_size,        \* real_size
    j_pc,             \* "start" | "list" | "collected" | "extract" | "failed" | "written"
    \* ---- NTFSExtractor._extract_from_data_runs, called with skip_sparse=False
    data_runs,        \* the argument data_runs
    size_limit,       \* the argument real_size
    run_index,        \* position of `for run in data_runs`
    cluster_index,    \* position of the loop over the clusters of the run
    written,          \* written
    out_file,         \* the bytes written to out_file
    extract_pc,       \* "run" | "zeros" | "data" | "done"
    \* ---- RecordPage.parse and LogFileParser._parse_page_records
    log_plan,         \* the layout of the record page (header fields, records, zeros, junk)
    page_is_valid,    \* page.is_valid
    next_record_offset, \* page.next_record_offset
    log_offset,       \* the local `offset` of _parse_page_records
    log_out,          \* the records yielded so far: page offset and client_data_length
    log_pc,           \* "parse" | "scan" | "done"
    \* ---- LogFileParser._scan_for_filename
    scan_plan,        \* the layout of the payload handed to _scan_for_filename
    scan_offset,      \* the loop variable `offset`
    scan_filename,    \* record.filename, as UTF-16 code units
    scan_parent,      \* record.parent_reference, as its 8 bytes
    scan_pc,          \* "scan" | "done"
    \* ---- LogFileParser._parse_client_data
    client_plan,      \* the layout of the log record: opcodes, redo window, index entry
    log_record,       \* the fields of `record` that _parse_client_data reads and sets
    client_pc,        \* "redo" | "whole" | "undo" | "init" | "attr" | "final" | "done"
    \* ---- MFTEntry.to_record, the $DATA size loop
    size_plan,        \* the attributes of the entry as laid out on disk
    size_index,       \* position of the loop over self.attributes
    data_size,        \* record.data_size
    is_resident,      \* record.is_resident
    size_pc,          \* "loop" | "done"
    \* ---- UnifiedAnalyzer._iter_all_records
    timeline_plan,    \* the three artifacts handed to the analysis run
    timeline_pc,      \* position in the generator
    timeline_index,   \* position of the running loop in its decoder's records
    timeline,         \* the UnifiedRecords yielded so far
    mft_path_cache,   \* path_cache of the MFTParser of the MFT block
    usn_path_cache,   \* path_cache of the UsnJrnlParserWithMFT
    cache_builds,     \* calls of MFTParser.build_path_cache so far
    \* ---- MFTParser.iter_entries
    entries_plan,     \* the MFT file: its entry slots, a trailing partial slot
    entries_pos,      \* slots that f.read has consumed
    entry_number,     \* the counter of the loop
    entries_out,      \* records yielded so far
    entries_pc,       \* "read" | "done"
    \* ---- the subcommands of ntfs_parser.py
    cli_plan,         \* the subcommand, its arguments and what the run meets
    cli_pc,           \* "start" | "probe" | "select" | "extract" | "done"
    exit_code,        \* the value the command returns
    handle_open,      \* the image handle of the run is open
    partition_index,  \* position of the loop over partitions_to_process
    \* ---- find_ntfs_partitions
    part_plan,        \* the layout of the first sectors of the image
    part_pc,          \* "start" | "mbr" | "gpt" | "done"
    part_index,       \* i of the loop over MBR or GPT entries
    partitions,       \* partitions: the NTFSPartition objects appended
    \* ---- LogFileParser.iter_records
    pages_plan,       \* the layout of the $LogFile
    pages_pc,         \* "restart" | "loop" | "done"
    page_size,        \* self.page_size
    page_offset,      \* page_offset
    examined,         \* the offsets of the pages read whole by the loop
    emitted           \* the records yielded: page offset and offset in page

usnVars == <<usn_plan, file_pos, buffer, processed_bytes,
             total_records, usn_out, usn_pc>>

mftVars == <<mft_plan, mft_data, is_valid, mft_sequence, mft_flags,
             attributes, attr_visits, mft_pc>>

runVars == <<run_data, run_offset, current_cluster, runs, run_pc>>

nameVars == <<fn_attrs, fn_index, best_filename, record_filename, fn_pc>>

pathVars == <<parent_map, name_map, path_cache, path_todo, path_stack, visited,
              path_ret, expanded_log, path_pc>>

collectVars == <<j_base, attr_list_entries, extent_home, record_parses, al_index,
                 all_data_runs, real_size, j_pc>>

extractVars == <<data_runs, size_limit, run_index, cluster_index, written, out_file,
                 extract_pc>>

logVars == <<log_plan, page_is_valid, next_record_offset, log_offset, log_out, log_pc>>

scanVars == <<scan_plan, scan_offset, scan_filename, scan_parent, scan_pc>>

clientVars == <<client_plan, log_record, client_pc>>

sizeVars == <<size_plan, size_index, data_size, is_resident, size_pc>>

timelineVars ==
    <<timeline_plan, timeline_pc, timeline_index, timeline, mft_path_cache,
      usn_path_cache, cache_builds>>

entriesVars == <<entries_plan, entries_pos, entry_number, entries_out, entries_pc>>

cliVars == <<cli_plan, cli_pc, exit_code, handle_open, partition_index>>

partVars == <<part_plan, part_pc, part_index, partitions>>

pagesVars == <<pages_plan, pages_pc, page_size, page_offset, examined, emitted>>

vars == <<usnVars, mftVars, runVars, nameVars, pathVars, collectVars, extractVars, logVars, scanVars, clientVars, sizeVars, timelineVars, entriesVars, cliVars, partVars, pagesVars>>

nonUsnVars == <<mftVars, runVars, nameVars, pathVars, collectVars,
    extractVars, logVars, scanVars, clientVars, sizeVars, timelineVars,
    entriesVars, cliVars, partVars, pagesVars>>

nonMftVars == <<usnVars, runVars, nameVars, pathVars, collectVars,
    extractVars, logVars, scanVars, clientVars, sizeVars, timelineVars,
    entriesVars, cliVars, partVars, pagesVars>>

nonRunVars == <<usnVars, mftVars, nameVars, pathVars, collectVars,
    extractVars, logVars, scanVars, clientVars, sizeVars, timelineVars,
    entriesVars, cliVars, partVars, pagesVars>>

nonNameVars == <<usnVars, mftVars, runVars, pathVars, collectVars,
    extractVars, logVars, scanVars, clientVars, sizeVars, timelineVars,
    entriesVars, cliVars, partVars, pagesVars>>

nonPathVars == <<usnVars, mftVars, runVars, nameVars, collectVars,
    extractVars, logVars, scanVars, clientVars, sizeVars, timelineVars,
    entriesVars, cliVars, partVars, pagesVars>>

nonCollectVars == <<usnVars, mftVars, runVars, nameVars, pathVars,
    extractVars, logVars, scanVars, clientVars, sizeVars, timelineVars,
    entriesVars, cliVars, partVars, pagesVars>>

nonExtractVars == <<usnVars, mftVars, runVars, nameVars, pathVars,
    collectVars, logVars, scanVars, clientVars, sizeVars, timelineVars,
    entriesVars, cliVars, partVars, pagesVars>>

nonLogVars == <<usnVars, mftVars, runVars, nameVars, pathVars, collectVars,
    extractVars, scanVars, clientVars, sizeVars, timelineVars, entriesVars,
    cliVars, partVars, pagesVars>>

nonScanVars == <<usnVars, mftVars, runVars, nameVars, pathVars, collectVars,
    extractVars, logVars, clientVars, sizeVars, timelineVars, entriesVars,
    cliVars, partVars, pagesVars>>

nonClientVars == <<usnVars, mftVars, runVars, nameVars, pathVars,
    collectVars, extractVars, logVars, scanVars, sizeVars, timelineVars,
    entriesVars, cliVars, partVars, pagesVars>>

nonSizeVars == <<usnVars, mftVars, runVars, nameVars, pathVars, collectVars,
    extractVars, logVars, scanVars, clientVars, timelineVars, entriesVars,
    cliVars, partVars, pagesVars>>

nonTimelineVars == <<usnVars, mftVars, runVars, nameVars, pathVars,
    collectVars, extractVars, logVars, scanVars, clientVars, sizeVars,
    entriesVars, cliVars, partVars, pagesVars>>

nonEntriesVars == <<usnVars, mftVars, runVars, nameVars, pathVars,
    collectVars, extractVars, logVars, scanVars, clientVars, sizeVars,
    timelineVars, cliVars, partVars, pagesVars>>

nonCliVars == <<usnVars, mftVars, runVars, nameVars, pathVars, collectVars,
    extractVars, logVars, scanVars, clientVars, sizeVars, timelineVars,
    entriesVars, partVars, pagesVars>>

nonPartVars == <<usnVars, mftVars, runVars, nameVars, pathVars, collectVars,
    extractVars, logVars, scanVars, clientVars, sizeVars, timelineVars,
    entriesVars, cliVars, pagesVars>>

nonPagesVars == <<usnVars, mftVars, runVars, nameVars, pathVars, collectVars,
    extractVars, logVars, scanVars, clientVars, sizeVars, timelineVars,
    entriesVars, cliVars, partVars>>

(***************************************************************************)
(* Bytes and little-endian integers (struct.unpack '<H', '<I').            *)
(* Offsets are zero-based as in the source; sequences are one-based.       *)
(***************************************************************************)
Min(S) == CHOOSE x \in S : \A y \in S : x <= y

\* data[a:b] of Python, clipped to the data as slicing is
Slice(data, a, b) ==
    LET lo == IF a < 0 THEN 0 ELSE a
        hi == IF b > Len(data) THEN Len(data) ELSE b
    IN  IF hi <= lo THEN << >> ELSE SubSeq(data, lo + 1, hi)

U16(data, off) == data[off + 1] + 256 * data[off + 2]

\* A value of 2^31 or more reads as Huge: the source only compares such a value
\* with far smaller ones, and tests it for 0xFFFFFFFF byte by byte (IsFFFFFFFF).
Huge == 2147483647

U32(data, off) ==
    IF data[off + 4] >= 128 THEN Huge
    ELSE data[off + 1] + 256 * data[off + 2] + 65536 * data[off + 3]
             + 16777216 * data[off + 4]

IsFFFFFFFF(data, off) == \A k \in 1..4 : data[off + k] = 255

RECURSIVE Concat(_)
Concat(ss) == IF ss = << >> THEN << >> ELSE Head(ss) \o Concat(Tail(ss))

(***************************************************************************)
(* UsnJrnlParser                                                           *)
(***************************************************************************)
\* The source reads 1024 * 1024 bytes at a time; the model reads in chunks of
\* this many bytes so that refill boundaries fall inside small files.
BUFFER_SIZE == 64

MIN_RECORD_SIZE_V2 == 60

MIN_RECORD_SIZE_V3 == 76

MAX_RECORD_LENGTH == 65536

\* ---- the input files
MaxSegs == 3

MaxZeroBlocks == 8

RecLens == {60, 64, 72, 80}

JunkLens == {8, 64, 68}

Segments ==
    [k : {"zeros"}, n : 1..MaxZeroBlocks, ver : {0}]
        \cup [k : {"rec"}, n : RecLens, ver : {2, 3}]
        \cup [k : {"junk"}, n : JunkLens, ver : {0}]

\* A record: record_length, major version, minor version 0, then the body.
RecBytes(len, ver) ==
    [i \in 1..len |->
        CASE i = 1 -> len % 256
          [] i = 2 -> len \div 256
          [] i = 5 -> ver
          [] i \in {3, 4, 6, 7, 8} -> 0
          [] OTHER -> 1]

SegBytes(seg) ==
    CASE seg.k = "zeros" -> [i \in 1..(8 * seg.n) |-> 0]
      [] seg.k = "rec" -> RecBytes(seg.n, seg.ver)
      [] OTHER -> [i \in 1..seg.n |-> 255]

PlanBytes(plan) == Concat([i \in 1..Len(plan) |-> SegBytes(plan[i])])

UsnPlans == UNION {[1..n -> Segments] : n \in 0..MaxSegs}

\* ---- the scanner
\* buffer[i:i + 8] == b'\x00' * 8
IsZero8(buf, i) == i + 8 <= Len(buf) /\ \A k \in 1..8 : buf[i + k] = 0

\* lines 99-108: the end of the zero run, rounded down to 8
ZeroEnd(buf) ==
    LET nz == {i \in 0..(Len(buf) - 9) : i % 8 = 0 /\ ~IsZero8(buf, i)}
        zero_end == IF nz = {} THEN Len(buf) ELSE Min(nz)
    IN  (zero_end \div 8) * 8

ValidLength(n) == MIN_RECORD_SIZE_V2 <= n /\ n <= MAX_RECORD_LENGTH

\* lines 126-135: the 8-byte-aligned positions holding a plausible header
ResyncHits(buf) ==
    {i \in 8..(Len(buf) - 9) :
        /\ i % 8 = 0
        /\ ValidLength(U32(buf, i))
        /\ U16(buf, i + 4) \in {2, 3, 4}
        /\ U16(buf, i + 6) = 0}

\* _parse_record: whether a record comes back for this data
ParsesAsRecord(data) ==
    /\ Len(data) >= MIN_RECORD_SIZE_V2
    /\ \/ U16(data, 4) = 2
       \/ U16(data, 4) \in {3, 4} /\ Len(data) >= MIN_RECORD_SIZE_V3

\* the bytes of the $J file being read
usn_file == PlanBytes(usn_plan)

\* file offset of buffer[0]
BufferOffset == file_pos - Len(buffer)

UsnStart ==
    /\ usn_plan \in UsnPlans
    /\ file_pos = 0
    /\ buffer = << >>
    /\ processed_bytes = 0
    /\ total_records = 0
    /\ usn_out = << >>
    /\ usn_pc = "read"

UsnIdle ==
    /\ usn_plan = << >>
    /\ file_pos = 0
    /\ buffer = << >>
    /\ processed_bytes = 0
    /\ total_records = 0
    /\ usn_out = << >>
    /\ usn_pc = "idle"

\* lines 88-92: chunk = f.read(BUFFER_SIZE)
UsnRead ==
    /\ UNCHANGED nonUsnVars
    /\ usn_pc = "read"
    /\ LET chunk == Slice(usn_file, file_pos, file_pos + BUFFER_SIZE)
       IN  IF chunk = << >>
           THEN /\ usn_pc' = "done"
                /\ UNCHANGED <<file_pos, buffer>>
           ELSE /\ buffer' = buffer \o chunk
                /\ file_pos' = file_pos + Len(chunk)
                /\ usn_pc' = "scan"
    /\ UNCHANGED <<usn_plan, processed_bytes, total_records, usn_out>>

\* line 95: the inner while ends when fewer than 60 bytes are buffered
UsnScanExit ==
    /\ UNCHANGED nonUsnVars
    /\ usn_pc = "scan"
    /\ Len(buffer) < MIN_RECORD_SIZE_V2
    /\ usn_pc' = "read"
    /\ UNCHANGED <<usn_plan, file_pos, buffer, processed_bytes,
                   total_records, usn_out>>

\* lines 97-117
UsnSkipZeros ==
    /\ UNCHANGED nonUsnVars
    /\ usn_pc = "scan"
    /\ Len(buffer) >= MIN_RECORD_SIZE_V2
    /\ IsZero8(buffer, 0)
    /\ LET zero_end == ZeroEnd(buffer)
       IN  IF zero_end > 0
           THEN /\ processed_bytes' = processed_bytes + zero_end
                /\ buffer' = Slice(buffer, zero_end, Len(buffer))
                /\ usn_pc' = "scan"
           ELSE /\ processed_bytes' = processed_bytes + Len(buffer)
                /\ buffer' = << >>
                /\ usn_pc' = "read"
    /\ UNCHANGED <<usn_plan, file_pos, total_records, usn_out>>

\* lines 120-123: record_length out of range
UsnBadLength ==
    /\ UNCHANGED nonUsnVars
    /\ usn_pc = "scan"
    /\ Len(buffer) >= MIN_RECORD_SIZE_V2
    /\ ~IsZero8(buffer, 0)
    /\ ~ValidLength(U32(buffer, 0))
    /\ usn_pc' = "resync"
    /\ UNCHANGED <<usn_plan, file_pos, buffer, processed_bytes,
                   total_records, usn_out>>

\* lines 125-140: advance to the first plausible header, or keep the last 60
UsnResync ==
    /\ UNCHANGED nonUsnVars
    /\ usn_pc = "resync"
    /\ LET hits == ResyncHits(buffer)
       IN  IF hits # {}
           THEN /\ processed_bytes' = processed_bytes + Min(hits)
                /\ buffer' = Slice(buffer, Min(hits), Len(buffer))
           ELSE /\ processed_bytes' =
                       processed_bytes + Len(buffer) - MIN_RECORD_SIZE_V2
                /\ buffer' = Slice(buffer, Len(buffer) - MIN_RECORD_SIZE_V2,
                                   Len(buffer))
    /\ usn_pc' = "scan"
    /\ UNCHANGED <<usn_plan, file_pos, total_records, usn_out>>

\* lines 143-144: the record is not whole in the buffer yet
UsnNeedMore ==
    /\ UNCHANGED nonUsnVars
    /\ usn_pc = "scan"
    /\ Len(buffer) >= MIN_RECORD_SIZE_V2
    /\ ~IsZero8(buffer, 0)
    /\ ValidLength(U32(buffer, 0))
    /\ Len(buffer) < U32(buffer, 0)
    /\ usn_pc' = "read"
    /\ UNCHANGED <<usn_plan, file_pos, buffer, processed_bytes,
                   total_records, usn_out>>

\* lines 147-155: parse the record, yield it, advance by record_length
UsnRecord ==
    /\ UNCHANGED nonUsnVars
    /\ usn_pc = "scan"
    /\ Len(buffer) >= MIN_RECORD_SIZE_V2
    /\ ~IsZero8(buffer, 0)
    /\ ValidLength(U32(buffer, 0))
    /\ Len(buffer) >= U32(buffer, 0)
    /\ LET record_length == U32(buffer, 0)
           record_data == Slice(buffer, 0, record_length)
       IN  /\ IF ParsesAsRecord(record_data)
              THEN /\ total_records' = total_records + 1
                   /\ usn_out' = Append(usn_out,
                          [offset |-> BufferOffset,
                           record_length |-> record_length,
                           major_version |-> U16(record_data, 4)])
              ELSE UNCHANGED <<total_records, usn_out>>
           /\ processed_bytes' = processed_bytes + record_length
           /\ buffer' = Slice(buffer, record_length, Len(buffer))
    /\ UNCHANGED <<usn_plan, file_pos, usn_pc>>

NextUsn ==
    \/ UsnRead
    \/ UsnScanExit
    \/ UsnSkipZeros
    \/ UsnBadLength
    \/ UsnResync
    \/ UsnNeedMore
    \/ UsnRecord


(***************************************************************************)
(* MFTEntry                                                                *)
(***************************************************************************)
MFT_ENTRY_SIZE == 1024

SECTOR_SIZE == 512

MFT_SIGNATURE == <<70, 73, 76, 69>>

MFT_SIGNATURE_BAD == <<66, 65, 65, 68>>

\* ---- the input entries
\* The entry's update sequence number and the words of its fixup array.
UsnWord == <<1, 0>>

FixupWord(i) == <<160 + i, 176 + i>>

\* Bytes a torn write left at a sector tail instead of the sequence number.
TornWord == <<2, 0>>

MaxFixupCount == 3

\* The attribute area: the offset of the first attribute and the used size
\* of the header, the length field of the first attribute and of the one
\* that follows it; EndMarker stands for the type 0xFFFFFFFF in place of an
\* attribute.
EndMarker == 0 - 1

AttrLengthFields == {EndMarker, 0, 8, 24, 4000}

WalkPlans ==
    [attr_offset : {56, 1012, 1022}, used_size : {56, 64, 1024},
     first : AttrLengthFields, second : AttrLengthFields]

\* An attribute area that is the end marker alone, or zeros alone.
PlainWalks ==
    {w \in WalkPlans : /\ w.attr_offset = 56 /\ w.used_size = 64
                       /\ w.first \in {EndMarker, 0} /\ w.second = 0}

\* Every header with a plain attribute area, every attribute area with a
\* sound header.
MftPlans ==
    {plan \in [sig : {MFT_SIGNATURE, MFT_SIGNATURE_BAD, <<0, 0, 0, 0>>},
               fixup_offset : {0, 48, 1020},
               fixup_count : 0..MaxFixupCount,
               torn : SUBSET (1..(MFT_ENTRY_SIZE \div SECTOR_SIZE)),
               flags : {0, 1},
               walk : WalkPlans] :
        \/ plan.walk \in PlainWalks
        \/ plan.sig = MFT_SIGNATURE /\ plan.torn = {} /\ plan.flags = 1}

\* Byte k of the eight bytes type, length of an attribute of type 0x10, or
\* of the end marker followed by zeros.
AttrHeaderByte(field, k) ==
    IF field = EndMarker THEN (IF k < 4 THEN 255 ELSE 0)
    ELSE IF k = 0 THEN 16
    ELSE IF k = 4 THEN field % 256
    ELSE IF k = 5 THEN field \div 256
    ELSE 0

\* The bytes of an entry: header, fixup array, one sequence-number word at
\* the tail of each sector (or the torn word), and at the attribute offset
\* either the end marker or zeros.  With fixup_offset 0 the array is the
\* header itself: its words are the bytes of the signature and of the
\* fixup fields.
PlanEntry(plan) ==
    LET fo == plan.fixup_offset
        ao == plan.walk.attr_offset
        second == ao + plan.walk.first
        word(i) ==
            CASE i \in 0..3 -> plan.sig[i + 1]
              [] i = 4 -> fo % 256
              [] i = 5 -> fo \div 256
              [] i = 6 -> plan.fixup_count
              [] i = 16 -> 7
              [] i = 20 -> ao % 256
              [] i = 21 -> ao \div 256
              [] i = 22 -> plan.flags
              [] i = 24 -> plan.walk.used_size % 256
              [] i = 25 -> plan.walk.used_size \div 256
              [] i \in ao..(ao + 7) -> AttrHeaderByte(plan.walk.first, i - ao)
              [] plan.walk.first \in {8, 24} /\ i \in second..(second + 7) ->
                     AttrHeaderByte(plan.walk.second, i - second)
              [] OTHER -> 0
        tail(i) ==
            IF i % SECTOR_SIZE >= SECTOR_SIZE - 2
            THEN (IF (i \div SECTOR_SIZE) + 1 \in plan.torn
                  THEN TornWord ELSE UsnWord)[(i % SECTOR_SIZE) - SECTOR_SIZE + 3]
            ELSE word(i)
        arr(i) ==
            IF fo > 0 /\ i >= fo /\ i < fo + 2 * plan.fixup_count
                   /\ i < MFT_ENTRY_SIZE
            THEN (IF i - fo < 2 THEN UsnWord[i - fo + 1]
                  ELSE FixupWord((i - fo) \div 2)[((i - fo) % 2) + 1])
            ELSE tail(i)
    IN  [i \in 1..MFT_ENTRY_SIZE |-> arr(i - 1)]

\* ---- MFTEntry._apply_fixup, lines 92-104
RECURSIVE FixupFrom(_, _, _, _)
FixupFrom(data, offset, count, i) ==
    IF i >= count THEN data
    ELSE LET fixup_value == Slice(data, offset + i * 2, offset + i * 2 + 2)
             sector_end == (i * SECTOR_SIZE) - 2
         IN  IF sector_end + 2 <= Len(data)
             THEN FixupFrom(
                      Slice(data, 0, sector_end) \o fixup_value
                          \o Slice(data, sector_end + 2, Len(data)),
                      offset, count, i + 1)
             ELSE FixupFrom(data, offset, count, i + 1)

ApplyFixup(data, offset, count) == FixupFrom(data, offset, count, 1)

\* ---- MFTEntry._parse_attributes, lines 106-128
\* The tests of the loop with attr_length == 0 as the only test of the length.
WalkStopsOnZeroLengthOnly(data, offset, max_offset) ==
    IF ~(offset + 4 <= Len(data) /\ offset < max_offset) THEN TRUE
    ELSE IF IsFFFFFFFF(data, offset) THEN TRUE
    ELSE IF offset + 8 > Len(data) THEN TRUE
    ELSE U32(data, offset + 4) = 0

\* lines 109-121: the loop ends at `offset`, by its condition or by a break
WalkStops(data, offset, max_offset) ==
    IF ~(offset + 4 <= Len(data) /\ offset < max_offset) THEN TRUE
    ELSE IF IsFFFFFFFF(data, offset) THEN TRUE
    ELSE IF offset + 8 > Len(data) THEN TRUE
    ELSE LET attr_length == U32(data, offset + 4)
         IN  attr_length = 0 \/ attr_length > Len(data) - offset

\* lines 109-128: the attributes the loop body handles, in order
RECURSIVE AttrVisits(_, _, _)
AttrVisits(data, offset, max_offset) ==
    IF WalkStops(data, offset, max_offset) THEN << >>
    ELSE LET attr_type == U32(data, offset)
             attr_length == U32(data, offset + 4)
         IN  <<[offset |-> offset, type |-> attr_type, length |-> attr_length]>>
                 \o AttrVisits(data, offset + attr_length, max_offset)

\* lines 123-126: _parse_attribute returns None for fewer than 16 bytes, and
\* the attribute is not appended
AttrWalk(data, offset, max_offset) ==
    SelectSeq(AttrVisits(data, offset, max_offset),
              LAMBDA attr : attr.length >= 16)

\* lines 75-76: the entry after the fixup step of parse
AfterFixup(data) ==
    LET fixup_offset == U16(data, 4)
        fixup_count == U16(data, 6)
    IN  IF fixup_count > 0 /\ fixup_offset + fixup_count * 2 <= Len(data)
        THEN ApplyFixup(data, fixup_offset, fixup_count)
        ELSE data

\* ---- RestartPage.parse and RecordPage.parse of logfile_parser.py (lines
\* 134-138, 226-230) with their _apply_fixup (lines 167-180, 256-269): the
\* page after the fixup step
PageAfterFixup(data) ==
    LET fixup_offset == U16(data, 4)
        fixup_count == U16(data, 6)
    IN  IF fixup_count > 1 /\ fixup_offset > 0
        THEN (IF fixup_offset + fixup_count * 2 > Len(data) THEN data
              ELSE FixupFrom(data, fixup_offset, fixup_count, 1))
        ELSE data

\* ---- NTFSExtractor._apply_fixup_to_index of image_handler.py, lines
\* 411-430
ApplyFixupToIndex(data) ==
    IF Len(data) < 48 THEN data
    ELSE LET fixup_offset == U16(data, 4)
             fixup_count == U16(data, 6)
         IN  IF fixup_count = 0 \/ fixup_offset + fixup_count * 2 > Len(data)
             THEN data
             ELSE FixupFrom(data, fixup_offset, fixup_count, 1)

\* lines 60-69: parse returns False before touching the entry
RejectedBySignature(data) ==
    IF Len(data) < 48 THEN TRUE
    ELSE IF Slice(data, 0, 4) \notin {MFT_SIGNATURE, MFT_SIGNATURE_BAD} THEN TRUE
    ELSE Slice(data, 0, 4) = MFT_SIGNATURE_BAD

MftStart ==
    /\ mft_plan \in MftPlans
    /\ mft_data = PlanEntry(mft_plan)
    /\ is_valid = FALSE
    /\ mft_sequence = 0
    /\ mft_flags = 0
    /\ attributes = << >>
    /\ attr_visits = << >>
    /\ mft_pc = "new"

MftIdle ==
    /\ mft_plan = << >>
    /\ mft_data = << >>
    /\ is_valid = FALSE
    /\ mft_sequence = 0
    /\ mft_flags = 0
    /\ attributes = << >>
    /\ attr_visits = << >>
    /\ mft_pc = "idle"

\* MFTEntry.parse, lines 59-90, returning False
MftParseReject ==
    /\ UNCHANGED nonMftVars
    /\ mft_pc = "new"
    /\ RejectedBySignature(mft_data)
    /\ mft_pc' = "rejected"
    /\ UNCHANGED <<mft_plan, mft_data, is_valid, mft_sequence, mft_flags,
                   attributes, attr_visits>>

\* MFTEntry.parse, lines 59-90, returning True
MftParseAccept ==
    /\ UNCHANGED nonMftVars
    /\ mft_pc = "new"
    /\ ~RejectedBySignature(mft_data)
    /\ LET data == AfterFixup(mft_data)
       IN  /\ mft_data' = data
           /\ mft_sequence' = U16(data, 16)
           /\ mft_flags' = U16(data, 22)
           /\ attributes' = AttrWalk(data, U16(data, 20), U32(data, 24))
           /\ attr_visits' = AttrVisits(data, U16(data, 20), U32(data, 24))
    /\ is_valid' = TRUE
    /\ mft_pc' = "parsed"
    /\ UNCHANGED mft_plan

NextMft == MftParseReject \/ MftParseAccept

(***************************************************************************)
(* MFTEntry._parse_data_runs                                               *)
(***************************************************************************)
\* ---- the input run lists
MaxRunBytes == 5

\* Headers 0x00, 0x01, 0x10, 0x11, 0x21 and field bytes 0x00, 0x01, 0x80, 0xFF.
RunByteSet == {0, 1, 16, 17, 33, 128, 255}

\* Header 0x33, length 00 00 01, offset 00 00 FF.
SeedRun == <<51, 0, 0, 1, 0, 0, 255>>

\* A run at LCN 1, a sparse run, and a run with offset field FF.
SparseGapRun == <<17, 1, 1, 1, 1, 17, 1, 255>>

RunInputs ==
    UNION {[1..n -> RunByteSet] : n \in 0..MaxRunBytes} \cup {SeedRun, SparseGapRun}

\* ---- the decoder
RECURSIVE Pow2(_)
Pow2(n) == IF n = 0 THEN 1 ELSE 2 * Pow2(n - 1)

\* int.from_bytes(bs, 'little')
RECURSIVE FromBytesLittle(_)
FromBytesLittle(bs) ==
    IF bs = << >> THEN 0 ELSE Head(bs) + 256 * FromBytesLittle(Tail(bs))

\* The offset field read without the sign extension of lines 235-236.
SignedOffsetNoSignExtend(offset_bytes) == FromBytesLittle(offset_bytes)

\* The offset field with the sign read from its first byte.
SignedOffsetSignOfFirstByte(offset_bytes) ==
    LET run_offset_u == FromBytesLittle(offset_bytes)
    IN  IF offset_bytes[1] >= 128
        THEN run_offset_u - Pow2(Len(offset_bytes) * 8)
        ELSE run_offset_u

\* lines 233-236: the offset field as a signed number
SignedOffset(offset_bytes) ==
    LET run_offset_u == FromBytesLittle(offset_bytes)
    IN  IF offset_bytes[Len(offset_bytes)] >= 128
        THEN run_offset_u - Pow2(Len(offset_bytes) * 8)
        ELSE run_offset_u

RunHeader == run_data[run_offset + 1]

length_size == RunHeader % 16

offset_size == (RunHeader \div 16) % 16

\* lines 211-223: the loop ends
RunLoopEnds ==
    IF run_offset >= Len(run_data) THEN TRUE
    ELSE IF RunHeader = 0 THEN TRUE
    ELSE IF length_size = 0 THEN TRUE
    ELSE run_offset + 1 + length_size + offset_size > Len(run_data)

RunStart ==
    /\ run_data \in RunInputs
    /\ run_offset = 0
    /\ current_cluster = 0
    /\ runs = << >>
    /\ run_pc = "loop"

RunIdle ==
    /\ run_data = << >>
    /\ run_offset = 0
    /\ current_cluster = 0
    /\ runs = << >>
    /\ run_pc = "idle"

\* lines 211-223 and 254: leave the loop and return runs
RunStop ==
    /\ UNCHANGED nonRunVars
    /\ run_pc = "loop"
    /\ RunLoopEnds
    /\ run_pc' = "done"
    /\ UNCHANGED <<run_data, run_offset, current_cluster, runs>>

\* lines 225-243 and 252: a run with an offset field
RunDecode ==
    /\ UNCHANGED nonRunVars
    /\ run_pc = "loop"
    /\ ~RunLoopEnds
    /\ offset_size > 0
    /\ LET length_bytes ==
               Slice(run_data, run_offset + 1, run_offset + 1 + length_size)
           offset_bytes ==
               Slice(run_data, run_offset + 1 + length_size,
                     run_offset + 1 + length_size + offset_size)
           start == current_cluster + SignedOffset(offset_bytes)
       IN  /\ current_cluster' = start
           /\ runs' = Append(runs,
                  [start_cluster |-> start,
                   length |-> FromBytesLittle(length_bytes),
                   sparse |-> FALSE])
    /\ run_offset' = run_offset + 1 + length_size + offset_size
    /\ UNCHANGED <<run_data, run_pc>>

\* lines 225-227 and 244-252: a sparse run (offset_size == 0)
RunDecodeSparse ==
    /\ UNCHANGED nonRunVars
    /\ run_pc = "loop"
    /\ ~RunLoopEnds
    /\ offset_size = 0
    /\ LET length_bytes ==
               Slice(run_data, run_offset + 1, run_offset + 1 + length_size)
       IN  runs' = Append(runs,
               [start_cluster |-> 0,
                length |-> FromBytesLittle(length_bytes),
                sparse |-> TRUE])
    /\ run_offset' = run_offset + 1 + length_size + offset_size
    /\ UNCHANGED <<run_data, current_cluster, run_pc>>

NextRun == RunStop \/ RunDecode \/ RunDecodeSparse

(***************************************************************************)
(* MFTEntry.to_record: the $FILE_NAME choice                               *)
(***************************************************************************)
FILE_NAME == 48

DATA == 128

POSIX == 0

WIN32 == 1

DOS == 2

WIN32_AND_DOS == 3

\* ---- the input attribute lists
MaxAttrs == 3

\* A parsed attribute as to_record reads it. _parse_filename leaves
\* fn_namespace and filename unset when the content is under 66 bytes.
AttrKinds ==
    [type : {FILE_NAME}, parsed : {TRUE},
     fn_namespace : {POSIX, WIN32, DOS, WIN32_AND_DOS}]
        \cup [type : {FILE_NAME}, parsed : {FALSE}, fn_namespace : {0}]
        \cup [type : {DATA}, parsed : {FALSE}, fn_namespace : {0}]

AttrLists == UNION {[1..n -> AttrKinds] : n \in 0..MaxAttrs}

\* attr.get('fn_namespace', 0)
GetNamespace(attr) == IF attr.parsed THEN attr.fn_namespace ELSE 0

\* attr.get('filename', ''): the name of the attribute at position i is
\* written "name i" here, as the number i; '' is 0.
GetFilename(attrs, i) == IF attrs[i].parsed THEN i ELSE 0

NameStart ==
    /\ fn_attrs \in AttrLists
    /\ fn_index = 1
    /\ best_filename = 0
    /\ record_filename = 0
    /\ fn_pc = "loop"

NameIdle ==
    /\ fn_attrs = << >>
    /\ fn_index = 0
    /\ best_filename = 0
    /\ record_filename = 0
    /\ fn_pc = "idle"

\* lines 315-316: an attribute that is no $FILE_NAME
NameSkipOther ==
    /\ UNCHANGED nonNameVars
    /\ fn_pc = "loop"
    /\ fn_index <= Len(fn_attrs)
    /\ fn_attrs[fn_index].type # FILE_NAME
    /\ fn_index' = fn_index + 1
    /\ UNCHANGED <<fn_attrs, best_filename, record_filename, fn_pc>>

\* lines 320-322: a Win32 or Win32+DOS name is taken and ends the loop
NameTakeWin32 ==
    /\ UNCHANGED nonNameVars
    /\ fn_pc = "loop"
    /\ fn_index <= Len(fn_attrs)
    /\ fn_attrs[fn_index].type = FILE_NAME
    /\ GetNamespace(fn_attrs[fn_index]) \in {WIN32, WIN32_AND_DOS}
    /\ best_filename' = fn_index
    /\ fn_pc' = "chosen"
    /\ UNCHANGED <<fn_attrs, fn_index, record_filename>>

\* lines 323-326: any other name is taken only while best_filename is None
NameVisitOther ==
    /\ UNCHANGED nonNameVars
    /\ fn_pc = "loop"
    /\ fn_index <= Len(fn_attrs)
    /\ fn_attrs[fn_index].type = FILE_NAME
    /\ GetNamespace(fn_attrs[fn_index]) \notin {WIN32, WIN32_AND_DOS}
    /\ best_filename' =
           IF GetNamespace(fn_attrs[fn_index]) = POSIX /\ best_filename = 0
           THEN fn_index
           ELSE IF best_filename = 0 THEN fn_index
           ELSE best_filename
    /\ fn_index' = fn_index + 1
    /\ UNCHANGED <<fn_attrs, record_filename, fn_pc>>

\* line 315: the loop is exhausted
NameLoopEnd ==
    /\ UNCHANGED nonNameVars
    /\ fn_pc = "loop"
    /\ fn_index > Len(fn_attrs)
    /\ fn_pc' = "chosen"
    /\ UNCHANGED <<fn_attrs, fn_index, best_filename, record_filename>>

\* lines 328-337: copy the chosen attribute into the record
NameCopy ==
    /\ UNCHANGED nonNameVars
    /\ fn_pc = "chosen"
    /\ record_filename' =
           IF best_filename # 0 THEN GetFilename(fn_attrs, best_filename)
           ELSE record_filename
    /\ fn_pc' = "done"
    /\ UNCHANGED <<fn_attrs, fn_index, best_filename>>

NextName ==
    \/ NameSkipOther
    \/ NameTakeWin32
    \/ NameVisitOther
    \/ NameLoopEnd
    \/ NameCopy

(***************************************************************************)
(* MFTParser.build_path_cache and its resolver get_path                    *)
(***************************************************************************)
ROOT_ENTRY == 5

\* The character "\" of a path; a path is the sequence of its characters.
Backslash == 92

\* ---- the input maps
\* The in-use entries are the root and NumEntries entries after it.
NumEntries == 3

OtherEntries == (ROOT_ENTRY + 1)..(ROOT_ENTRY + NumEntries)

InUseEntries == {ROOT_ENTRY} \cup OtherEntries

\* An entry number that is not in use, so that it is in neither map.
NotInUse == 0

\* record.filename: the name of entry e is empty or the one character "e".
NamesOf(e) == {<< >>, <<e>>}

ParentMaps ==
    {pm \in [InUseEntries -> InUseEntries \cup {NotInUse}] : pm[ROOT_ENTRY] = ROOT_ENTRY}

NameMaps ==
    {nm \in [InUseEntries -> UNION {NamesOf(e) : e \in InUseEntries}] :
        \A e \in InUseEntries : nm[e] \in NamesOf(e)}

\* A dict iterates in insertion order, and the first pass inserts the
\* entries in ascending entry number.
RECURSIVE Ascending(_)
Ascending(S) ==
    IF S = {} THEN << >>
    ELSE <<Min(S)>> \o Ascending(S \ {Min(S)})

\* self.path_cache[entry_num] = path
CacheStore(cache, e, path) ==
    [x \in DOMAIN cache \cup {e} |-> IF x = e THEN path ELSE cache[x]]

\* The name without the backslash before it.
BareName(name) == name

\* f"\\{name}"
RootedName(name) == <<Backslash>> \o name

\* The path that ignores the parent's path.
JoinPathDropsParent(parent_path, name) == RootedName(name)

\* f"{parent_path}\\{name}" if parent_path else f"\\{name}"
JoinPath(parent_path, name) ==
    IF parent_path # << >> THEN parent_path \o <<Backslash>> \o name
    ELSE RootedName(name)

\* The visited test that never cuts.
NeverInVisited(e, seen) == FALSE

\* entry_num in visited
InVisited(e, seen) == e \in seen

\* The entry of the innermost active call.
CurrentEntry == path_stack[Len(path_stack)]

PathStart ==
    /\ parent_map \in ParentMaps
    /\ name_map \in NameMaps
    /\ path_cache = << >>
    /\ path_todo = Ascending(DOMAIN name_map)
    /\ path_stack = << >>
    /\ visited = {}
    /\ path_ret = << >>
    /\ expanded_log = << >>
    /\ path_pc = "loop"

PathIdle ==
    /\ parent_map = << >>
    /\ name_map = << >>
    /\ path_cache = << >>
    /\ path_todo = << >>
    /\ path_stack = << >>
    /\ visited = {}
    /\ path_ret = << >>
    /\ expanded_log = << >>
    /\ path_pc = "idle"

\* lines 437-438: get_path(entry_num) with a fresh visited set
PathLoopNext ==
    /\ UNCHANGED nonPathVars
    /\ path_pc = "loop"
    /\ path_todo # << >>
    /\ path_stack' = <<Head(path_todo)>>
    /\ path_todo' = Tail(path_todo)
    /\ visited' = {}
    /\ expanded_log' = << >>
    /\ path_pc' = "call"
    /\ UNCHANGED <<parent_map, name_map, path_cache, path_ret>>

\* line 437: the loop over name_map is exhausted
PathLoopEnd ==
    /\ UNCHANGED nonPathVars
    /\ path_pc = "loop"
    /\ path_todo = << >>
    /\ path_pc' = "done"
    /\ UNCHANGED <<parent_map, name_map, path_cache, path_todo, path_stack,
                   visited, path_ret, expanded_log>>

\* lines 412-413: the entry is in the cache
PathCacheHit ==
    /\ UNCHANGED nonPathVars
    /\ path_pc = "call"
    /\ CurrentEntry \in DOMAIN path_cache
    /\ path_ret' = path_cache[CurrentEntry]
    /\ path_stack' = SubSeq(path_stack, 1, Len(path_stack) - 1)
    /\ path_pc' = "ret"
    /\ UNCHANGED <<parent_map, name_map, path_cache, path_todo, visited,
                   expanded_log>>

\* lines 415-416: the entry has no name
PathNotInMap ==
    /\ UNCHANGED nonPathVars
    /\ path_pc = "call"
    /\ CurrentEntry \notin DOMAIN path_cache
    /\ CurrentEntry \notin DOMAIN name_map
    /\ path_ret' = << >>
    /\ path_stack' = SubSeq(path_stack, 1, Len(path_stack) - 1)
    /\ path_pc' = "ret"
    /\ UNCHANGED <<parent_map, name_map, path_cache, path_todo, visited,
                   expanded_log>>

\* lines 418-419: the entry was seen in this traversal
PathVisitedCut ==
    /\ UNCHANGED nonPathVars
    /\ path_pc = "call"
    /\ CurrentEntry \notin DOMAIN path_cache
    /\ CurrentEntry \in DOMAIN name_map
    /\ InVisited(CurrentEntry, visited)
    /\ path_ret' = << >>
    /\ path_stack' = SubSeq(path_stack, 1, Len(path_stack) - 1)
    /\ path_pc' = "ret"
    /\ UNCHANGED <<parent_map, name_map, path_cache, path_todo, visited,
                   expanded_log>>

\* line 421: visited.add(entry_num)
PathExpand ==
    /\ UNCHANGED nonPathVars
    /\ path_pc = "call"
    /\ CurrentEntry \notin DOMAIN path_cache
    /\ CurrentEntry \in DOMAIN name_map
    /\ ~InVisited(CurrentEntry, visited)
    /\ visited' = visited \cup {CurrentEntry}
    /\ expanded_log' = Append(expanded_log, CurrentEntry)
    /\ path_pc' = "expanded"
    /\ UNCHANGED <<parent_map, name_map, path_cache, path_todo, path_stack,
                   path_ret>>

\* lines 426-427 and 434-435: the root directory
PathRoot ==
    /\ UNCHANGED nonPathVars
    /\ path_pc = "expanded"
    /\ CurrentEntry = ROOT_ENTRY
    /\ path_cache' = CacheStore(path_cache, CurrentEntry, <<Backslash>>)
    /\ path_ret' = <<Backslash>>
    /\ path_stack' = SubSeq(path_stack, 1, Len(path_stack) - 1)
    /\ path_pc' = "ret"
    /\ UNCHANGED <<parent_map, name_map, path_todo, visited, expanded_log>>

\* lines 428-429 and 434-435: a child of the root, or an entry that is its own parent
PathDirect ==
    /\ UNCHANGED nonPathVars
    /\ path_pc = "expanded"
    /\ CurrentEntry # ROOT_ENTRY
    /\ \/ parent_map[CurrentEntry] = ROOT_ENTRY
       \/ parent_map[CurrentEntry] = CurrentEntry
    /\ path_cache' = CacheStore(path_cache, CurrentEntry,
                                RootedName(name_map[CurrentEntry]))
    /\ path_ret' = RootedName(name_map[CurrentEntry])
    /\ path_stack' = SubSeq(path_stack, 1, Len(path_stack) - 1)
    /\ path_pc' = "ret"
    /\ UNCHANGED <<parent_map, name_map, path_todo, visited, expanded_log>>

\* lines 430-431: parent_path = get_path(parent, visited)
PathRecurse ==
    /\ UNCHANGED nonPathVars
    /\ path_pc = "expanded"
    /\ CurrentEntry # ROOT_ENTRY
    /\ parent_map[CurrentEntry] # ROOT_ENTRY
    /\ parent_map[CurrentEntry] # CurrentEntry
    /\ path_stack' = Append(path_stack, parent_map[CurrentEntry])
    /\ path_pc' = "call"
    /\ UNCHANGED <<parent_map, name_map, path_cache, path_todo, visited,
                   path_ret, expanded_log>>

\* lines 432-435: the nested call returned parent_path to its caller
PathResume ==
    /\ UNCHANGED nonPathVars
    /\ path_pc = "ret"
    /\ path_stack # << >>
    /\ path_cache' = CacheStore(path_cache, CurrentEntry,
                                JoinPath(path_ret, name_map[CurrentEntry]))
    /\ path_ret' = JoinPath(path_ret, name_map[CurrentEntry])
    /\ path_stack' = SubSeq(path_stack, 1, Len(path_stack) - 1)
    /\ UNCHANGED <<parent_map, name_map, path_todo, visited, expanded_log,
                   path_pc>>

\* line 438: the outermost call returned; its value is dropped
PathReturnTop ==
    /\ UNCHANGED nonPathVars
    /\ path_pc = "ret"
    /\ path_stack = << >>
    /\ path_pc' = "loop"
    /\ UNCHANGED <<parent_map, name_map, path_cache, path_todo, path_stack,
                   visited, path_ret, expanded_log>>

NextPath ==
    \/ PathLoopNext
    \/ PathLoopEnd
    \/ PathCacheHit
    \/ PathNotInMap
    \/ PathVisitedCut
    \/ PathExpand
    \/ PathRoot
    \/ PathDirect
    \/ PathRecurse
    \/ PathResume
    \/ PathReturnTop

(***************************************************************************)
(* NTFSExtractor._extract_usnjrnl_j_stream: collecting the runs of $J      *)
(***************************************************************************)
\* ---- the input volume
\* $J is stored as NumExtents $DATA attributes named $J, extent k covering
\* the one cluster with VCN k - 1, in records out of NumChildRecords.
NumExtents == 2

NumChildRecords == 2

Extents == 1..NumExtents

ChildRecords == 1..NumChildRecords

\* ref_attr['start_vcn']
StartVcn(k) == k - 1

\* ref_attr['data_runs']: extent k is the cluster with LCN k
ExtentRuns(k) == <<[start_cluster |-> k, length |-> 1, sparse |-> FALSE]>>

\* ref_attr['real_size']: the size of the stream in the VCN-0 attribute, 0 in the others
ExtentRealSize(k) == IF StartVcn(k) = 0 THEN NumExtents ELSE 0

\* The orders of an attribute list with one entry per $J extent and one
\* entry, written 0, of another attribute.
AttrListOrders ==
    {al \in [1..(NumExtents + 1) -> 0..NumExtents] :
        \A i, j \in 1..(NumExtents + 1) : al[i] = al[j] => i = j}

\* ref_entry.attributes, the $J attributes of a record in ascending VCN
RECURSIVE RecordExtents(_, _)
RecordExtents(rec, k) ==
    IF k > NumExtents THEN << >>
    ELSE (IF extent_home[k] = rec THEN <<k>> ELSE << >>) \o RecordExtents(rec, k + 1)

\* lines 502-508: all_data_runs after the loop over the extents ks of a record
RECURSIVE ExtendRuns(_, _)
ExtendRuns(acc, ks) ==
    IF ks = << >> THEN acc
    ELSE ExtendRuns(acc \o ExtentRuns(Head(ks)), Tail(ks))

\* lines 510-512: real_size after the loop over the extents ks of a record
RECURSIVE TakeRealSize(_, _)
TakeRealSize(size, ks) ==
    IF ks = << >> THEN size
    ELSE TakeRealSize(IF StartVcn(Head(ks)) = 0 THEN ExtentRealSize(Head(ks)) ELSE size,
                      Tail(ks))

CollectStart ==
    /\ j_base \in {"list", "nonresident", "resident", "none"}
    /\ IF j_base = "list"
       THEN /\ attr_list_entries \in AttrListOrders
            /\ extent_home \in [Extents -> ChildRecords]
            /\ record_parses \in [ChildRecords -> BOOLEAN]
       ELSE /\ attr_list_entries = << >>
            /\ extent_home = [k \in Extents |-> 1]
            /\ record_parses = [r \in ChildRecords |-> TRUE]
    /\ al_index = 1
    /\ all_data_runs = << >>
    /\ real_size = 0
    /\ j_pc = "start"

CollectIdle ==
    /\ j_base = "none"
    /\ attr_list_entries = << >>
    /\ extent_home = << >>
    /\ record_parses = << >>
    /\ al_index = 0
    /\ all_data_runs = << >>
    /\ real_size = 0
    /\ j_pc = "idle"

\* lines 478-486: the entry has an attribute list with entries
CollectBeginList ==
    /\ UNCHANGED nonCollectVars
    /\ j_pc = "start"
    /\ attr_list_entries # << >>
    /\ j_pc' = "list"
    /\ UNCHANGED <<j_base, attr_list_entries, extent_home, record_parses, al_index,
                   all_data_runs, real_size>>

\* lines 493-494: an attribute-list entry that is no $DATA named $J
CollectSkip ==
    /\ UNCHANGED nonCollectVars
    /\ j_pc = "list"
    /\ al_index <= Len(attr_list_entries)
    /\ attr_list_entries[al_index] = 0
    /\ al_index' = al_index + 1
    /\ UNCHANGED <<j_base, attr_list_entries, extent_home, record_parses,
                   all_data_runs, real_size, j_pc>>

\* lines 495-514: the referenced record parses; every $J attribute in it is taken
CollectFromRecord ==
    /\ UNCHANGED nonCollectVars
    /\ j_pc = "list"
    /\ al_index <= Len(attr_list_entries)
    /\ attr_list_entries[al_index] # 0
    /\ record_parses[extent_home[attr_list_entries[al_index]]]
    /\ all_data_runs' =
           ExtendRuns(all_data_runs,
                      RecordExtents(extent_home[attr_list_entries[al_index]], 1))
    /\ real_size' =
           TakeRealSize(real_size,
                        RecordExtents(extent_home[attr_list_entries[al_index]], 1))
    /\ al_index' = al_index + 1
    /\ UNCHANGED <<j_base, attr_list_entries, extent_home, record_parses, j_pc>>

\* lines 499-501 and 515-518: the referenced record does not parse
CollectUnreadable ==
    /\ UNCHANGED nonCollectVars
    /\ j_pc = "list"
    /\ al_index <= Len(attr_list_entries)
    /\ attr_list_entries[al_index] # 0
    /\ ~record_parses[extent_home[attr_list_entries[al_index]]]
    /\ al_index' = al_index + 1
    /\ UNCHANGED <<j_base, attr_list_entries, extent_home, record_parses,
                   all_data_runs, real_size, j_pc>>

\* line 493: the loop over attr_list_entries is exhausted
CollectListEnd ==
    /\ UNCHANGED nonCollectVars
    /\ j_pc = "list"
    /\ al_index > Len(attr_list_entries)
    /\ j_pc' = "collected"
    /\ UNCHANGED <<j_base, attr_list_entries, extent_home, record_parses, al_index,
                   all_data_runs, real_size>>

\* lines 519-532: no attribute list, a non-resident $J in the entry itself
CollectDirectNonResident ==
    /\ UNCHANGED nonCollectVars
    /\ j_pc = "start"
    /\ attr_list_entries = << >>
    /\ j_base = "nonresident"
    /\ all_data_runs' = ExtendRuns(<< >>, [k \in Extents |-> k])
    /\ real_size' = NumExtents
    /\ j_pc' = "collected"
    /\ UNCHANGED <<j_base, attr_list_entries, extent_home, record_parses, al_index>>

\* lines 533-539: no attribute list, a resident $J is written as it is
CollectDirectResident ==
    /\ UNCHANGED nonCollectVars
    /\ j_pc = "start"
    /\ attr_list_entries = << >>
    /\ j_base = "resident"
    /\ j_pc' = "written"
    /\ UNCHANGED <<j_base, attr_list_entries, extent_home, record_parses, al_index,
                   all_data_runs, real_size>>

\* lines 519-540: no attribute list and no $DATA named $J
CollectDirectNone ==
    /\ UNCHANGED nonCollectVars
    /\ j_pc = "start"
    /\ attr_list_entries = << >>
    /\ j_base = "none"
    /\ j_pc' = "collected"
    /\ UNCHANGED <<j_base, attr_list_entries, extent_home, record_parses, al_index,
                   all_data_runs, real_size>>

\* lines 542-545: no runs, return False
CollectReturnFalse ==
    /\ UNCHANGED nonCollectVars
    /\ j_pc = "collected"
    /\ all_data_runs = << >>
    /\ j_pc' = "failed"
    /\ UNCHANGED <<j_base, attr_list_entries, extent_home, record_parses, al_index,
                   all_data_runs, real_size>>

\* lines 556-558: the runs go to _extract_from_data_runs
CollectExtract ==
    /\ UNCHANGED nonCollectVars
    /\ j_pc = "collected"
    /\ all_data_runs # << >>
    /\ j_pc' = "extract"
    /\ UNCHANGED <<j_base, attr_list_entries, extent_home, record_parses, al_index,
                   all_data_runs, real_size>>

NextCollect ==
    \/ CollectBeginList
    \/ CollectSkip
    \/ CollectFromRecord
    \/ CollectUnreadable
    \/ CollectListEnd
    \/ CollectDirectNonResident
    \/ CollectDirectResident
    \/ CollectDirectNone
    \/ CollectReturnFalse
    \/ CollectExtract

(***************************************************************************)
(* NTFSExtractor._extract_from_data_runs, as _extract_usnjrnl_j_stream     *)
(* calls it: skip_sparse=False                                             *)
(***************************************************************************)
\* self.partition.cluster_size, scaled down from 4096
ClusterSize == 2

\* The clusters 0..ImageClusters-1 are in the image.
ImageClusters == 3

\* ---- the input run lists
MaxDataRuns == 2

MaxRunLength == 2

MaxRealSize == 5

\* Runs as _parse_data_runs builds them: a sparse run has start_cluster 0.
\* A start_cluster below 0 makes read_cluster raise and is left out.
RunKinds ==
    [start_cluster : {0}, length : 0..MaxRunLength, sparse : {TRUE}]
        \cup [start_cluster : 0..ImageClusters, length : 0..MaxRunLength,
              sparse : {FALSE}]

RunLists == UNION {[1..n -> RunKinds] : n \in 1..MaxDataRuns}

\* self.partition.read_cluster(c): every byte of the image differs from 0
\* and from the other bytes; a read past the end of the image is empty.
ClusterData(c) ==
    IF c < ImageClusters THEN [j \in 1..ClusterSize |-> c * 16 + j]
    ELSE << >>

\* b'\x00' * self.partition.cluster_size
ZeroChunk == [j \in 1..ClusterSize |-> 0]

\* real_size > 0 and written >= real_size
LimitReached == size_limit > 0 /\ written >= size_limit

\* The part of a chunk that lines 627-637 and 649-659 write.
ChunkWritten(chunk) ==
    IF size_limit > 0 /\ size_limit - written < Len(chunk)
    THEN SubSeq(chunk, 1, size_limit - written)
    ELSE chunk

ExtractStart ==
    /\ data_runs \in RunLists
    /\ size_limit \in 0..MaxRealSize
    /\ run_index = 1
    /\ cluster_index = 0
    /\ written = 0
    /\ out_file = << >>
    /\ extract_pc = "run"

ExtractIdle ==
    /\ data_runs = << >>
    /\ size_limit = 0
    /\ run_index = 0
    /\ cluster_index = 0
    /\ written = 0
    /\ out_file = << >>
    /\ extract_pc = "idle"

\* lines 612-614: the runs are exhausted, or the limit is reached
ExtractStop ==
    /\ UNCHANGED nonExtractVars
    /\ extract_pc = "run"
    /\ run_index > Len(data_runs) \/ LimitReached
    /\ extract_pc' = "done"
    /\ UNCHANGED <<data_runs, size_limit, run_index, cluster_index, written,
                   out_file>>

\* lines 617-625: a run that is sparse or starts at cluster 0
ExtractSparseRun ==
    /\ UNCHANGED nonExtractVars
    /\ extract_pc = "run"
    /\ run_index <= Len(data_runs)
    /\ ~LimitReached
    /\ data_runs[run_index].sparse \/ data_runs[run_index].start_cluster = 0
    /\ cluster_index' = 0
    /\ extract_pc' = "zeros"
    /\ UNCHANGED <<data_runs, size_limit, run_index, written, out_file>>

\* lines 626-637: one cluster of zeros
ExtractZeroChunk ==
    /\ UNCHANGED nonExtractVars
    /\ extract_pc = "zeros"
    /\ cluster_index < data_runs[run_index].length
    /\ ~LimitReached
    /\ out_file' = out_file \o ChunkWritten(ZeroChunk)
    /\ written' = written + Len(ChunkWritten(ZeroChunk))
    /\ cluster_index' = cluster_index + 1
    /\ UNCHANGED <<data_runs, size_limit, run_index, extract_pc>>

\* lines 626-630 and 638: the zeros of the run are written, or the limit is reached
ExtractZerosEnd ==
    /\ UNCHANGED nonExtractVars
    /\ extract_pc = "zeros"
    /\ cluster_index >= data_runs[run_index].length \/ LimitReached
    /\ run_index' = run_index + 1
    /\ extract_pc' = "run"
    /\ UNCHANGED <<data_runs, size_limit, cluster_index, written, out_file>>

\* lines 640-641: any other run
ExtractDataRun ==
    /\ UNCHANGED nonExtractVars
    /\ extract_pc = "run"
    /\ run_index <= Len(data_runs)
    /\ ~LimitReached
    /\ ~data_runs[run_index].sparse
    /\ data_runs[run_index].start_cluster # 0
    /\ cluster_index' = 0
    /\ extract_pc' = "data"
    /\ UNCHANGED <<data_runs, size_limit, run_index, written, out_file>>

\* lines 643-660: one cluster of the image
ExtractCluster ==
    /\ UNCHANGED nonExtractVars
    /\ extract_pc = "data"
    /\ cluster_index < data_runs[run_index].length
    /\ ~LimitReached
    /\ out_file' = out_file \o
           ChunkWritten(ClusterData(data_runs[run_index].start_cluster + cluster_index))
    /\ written' = written +
           Len(ChunkWritten(ClusterData(data_runs[run_index].start_cluster + cluster_index)))
    /\ cluster_index' = cluster_index + 1
    /\ UNCHANGED <<data_runs, size_limit, run_index, extract_pc>>

\* lines 643-645: the clusters of the run are written, or the limit is reached
ExtractDataEnd ==
    /\ UNCHANGED nonExtractVars
    /\ extract_pc = "data"
    /\ cluster_index >= data_runs[run_index].length \/ LimitReached
    /\ run_index' = run_index + 1
    /\ extract_pc' = "run"
    /\ UNCHANGED <<data_runs, size_limit, cluster_index, written, out_file>>

NextExtract ==
    \/ ExtractStop
    \/ ExtractSparseRun
    \/ ExtractZeroChunk
    \/ ExtractZerosEnd
    \/ ExtractDataRun
    \/ ExtractCluster
    \/ ExtractDataEnd

(***************************************************************************)
(* RecordPage.parse and LogFileParser._parse_page_records                  *)
(***************************************************************************)
HEADER_SIZE == 48

LOG_RECORD_HEADER_SIZE == 88

MAX_CLIENT_DATA_LENGTH == 65536

\* self.page_size, scaled down from 4096
LogPageSize == 320

\* ---- the input pages
MaxLogSegs == 3

\* The client_data_length values of the records of a page: the last two
\* are larger than the page and larger than 0x10000.
ClientLengths == {0, 8, 12, 400, 70000}

NextRecordOffsets == {0, 48, 136, 240, 320}

LogSegments ==
    [kind : {"rec"}, cdl : ClientLengths]
        \cup [kind : {"zero", "junk"}, cdl : {0}]

LogPlans ==
    [sig : {"RCRD", "BAAD"}, nro : NextRecordOffsets,
     segs : UNION {[1..n -> LogSegments] : n \in 0..MaxLogSegs}]

LE32(n) ==
    <<n % 256, (n \div 256) % 256, (n \div 65536) % 256, n \div 16777216>>

\* (record_size + 7) & ~7
Align8(n) == ((n + 7) \div 8) * 8

\* A log record: this_lsn 1, previous_lsn 1, client_data_length at 0x18,
\* and its client data when the page has room for them.
LogRecBytes(cdl) ==
    [i \in 1..LOG_RECORD_HEADER_SIZE |->
        CASE i \in {1, 9} -> 1
          [] i \in 25..28 -> LE32(cdl)[i - 24]
          [] OTHER -> 0]
        \o (IF cdl <= LogPageSize THEN [i \in 1..Align8(cdl) |-> 1] ELSE << >>)

LogSegBytes(seg) ==
    CASE seg.kind = "rec" -> LogRecBytes(seg.cdl)
      [] seg.kind = "zero" -> [i \in 1..8 |-> 0]
      [] seg.kind = "junk" -> [i \in 1..8 |-> 255]

\* The page header: signature, no fixup array, next_record_offset at 0x18.
PageHeaderBytes(plan) ==
    [i \in 1..HEADER_SIZE |->
        CASE i = 1 -> (IF plan.sig = "RCRD" THEN 82 ELSE 66)
          [] i = 2 -> (IF plan.sig = "RCRD" THEN 67 ELSE 65)
          [] i = 3 -> (IF plan.sig = "RCRD" THEN 82 ELSE 65)
          [] i = 4 -> 68
          [] i = 25 -> plan.nro % 256
          [] i = 26 -> plan.nro \div 256
          [] OTHER -> 0]

\* page_data = f.read(self.page_size): the plan's bytes, cut or padded
\* with zeros to the page size.
PageBytes(plan) ==
    LET raw == PageHeaderBytes(plan)
                   \o Concat([i \in 1..Len(plan.segs) |-> LogSegBytes(plan.segs[i])])
    IN  [i \in 1..LogPageSize |-> IF i <= Len(raw) THEN raw[i] ELSE 0]

\* page.data
log_data == PageBytes(log_plan)

\* data[0:4] == b'RCRD'
IsRCRD(data) == Slice(data, 0, 4) = <<82, 67, 82, 68>>

\* record.client_data_length of _parse_log_record at offset
ClientDataLength(data, offset) == U32(data, offset + 24)

\* _parse_log_record returns a record: the header fits, this_lsn is not 0
\* and client_data_length is not above 0x10000.
ParsesAsLogRecord(data, offset) ==
    IF offset + LOG_RECORD_HEADER_SIZE > Len(data) THEN FALSE
    ELSE IF IsZero8(data, offset) THEN FALSE
    ELSE ClientDataLength(data, offset) <= MAX_CLIENT_DATA_LENGTH

LogStart ==
    /\ log_plan \in LogPlans
    /\ page_is_valid = FALSE
    /\ next_record_offset = 0
    /\ log_offset = 0
    /\ log_out = << >>
    /\ log_pc = "parse"

LogIdle ==
    /\ log_plan = << >>
    /\ page_is_valid = FALSE
    /\ next_record_offset = 0
    /\ log_offset = 0
    /\ log_out = << >>
    /\ log_pc = "idle"

\* RecordPage.parse, lines 216-222: the signature is not RCRD
LogPageReject ==
    /\ UNCHANGED nonLogVars
    /\ log_pc = "parse"
    /\ ~IsRCRD(log_data)
    /\ log_pc' = "done"
    /\ UNCHANGED <<log_plan, page_is_valid, next_record_offset, log_offset, log_out>>

\* RecordPage.parse, lines 224-251, and lines 331-332 of _parse_page_records
LogPageAccept ==
    /\ UNCHANGED nonLogVars
    /\ log_pc = "parse"
    /\ IsRCRD(log_data)
    /\ page_is_valid' = TRUE
    /\ next_record_offset' = U16(log_data, 24)
    /\ log_offset' = HEADER_SIZE
    /\ log_pc' = "scan"
    /\ UNCHANGED <<log_plan, log_out>>

\* line 334: no room for a record header
LogScanEnd ==
    /\ UNCHANGED nonLogVars
    /\ log_pc = "scan"
    /\ log_offset + LOG_RECORD_HEADER_SIZE > Len(log_data)
    /\ log_pc' = "done"
    /\ UNCHANGED <<log_plan, page_is_valid, next_record_offset, log_offset, log_out>>

\* lines 336-337: this_lsn is 0
LogZeroLsn ==
    /\ UNCHANGED nonLogVars
    /\ log_pc = "scan"
    /\ log_offset + LOG_RECORD_HEADER_SIZE <= Len(log_data)
    /\ IsZero8(log_data, log_offset)
    /\ log_pc' = "done"
    /\ UNCHANGED <<log_plan, page_is_valid, next_record_offset, log_offset, log_out>>

\* lines 339-346: a record is yielded and the scan moves past it
LogRecordYield ==
    /\ UNCHANGED nonLogVars
    /\ log_pc = "scan"
    /\ log_offset + LOG_RECORD_HEADER_SIZE <= Len(log_data)
    /\ ~IsZero8(log_data, log_offset)
    /\ ParsesAsLogRecord(log_data, log_offset)
    /\ log_out' = Append(log_out,
           [offset |-> log_offset,
            client_data_length |-> ClientDataLength(log_data, log_offset)])
    /\ log_offset' = log_offset
           + Align8(LOG_RECORD_HEADER_SIZE + ClientDataLength(log_data, log_offset))
    /\ UNCHANGED <<log_plan, page_is_valid, next_record_offset, log_pc>>

\* lines 347-349: no record, the scan moves 8 bytes on
LogRecordSkip ==
    /\ UNCHANGED nonLogVars
    /\ log_pc = "scan"
    /\ log_offset + LOG_RECORD_HEADER_SIZE <= Len(log_data)
    /\ ~IsZero8(log_data, log_offset)
    /\ ~ParsesAsLogRecord(log_data, log_offset)
    /\ log_offset' = log_offset + 8
    /\ UNCHANGED <<log_plan, page_is_valid, next_record_offset, log_out, log_pc>>

NextLog ==
    \/ LogPageReject
    \/ LogPageAccept
    \/ LogScanEnd
    \/ LogZeroLsn
    \/ LogRecordYield
    \/ LogRecordSkip

(***************************************************************************)
(* LogFileParser._scan_for_filename                                        *)
(***************************************************************************)
\* The smallest payload scanned, and the size of a $FILE_NAME up to its name.
FN_MIN_SIZE == 68

FN_NAME_OFFSET == 66

\* ---- the input payloads
MaxNameLen == 2

\* The UTF-16LE code units of the names: "A", tab, the control character
\* U+0001, and a high surrogate with no low surrogate after it.
NameUnits == {<<65, 0>>, <<9, 0>>, <<1, 0>>, <<0, 216>>}

\* The parent reference, 6 bytes of entry number and 2 of sequence number:
\* entry 5, entry 2^36 and entry 2^40.
ParentRefs ==
    {<<5, 0, 0, 0, 0, 0, 1, 0>>, <<0, 0, 0, 0, 16, 0, 1, 0>>,
     <<0, 0, 0, 0, 0, 1, 1, 0>>}

ScanPlans ==
    [lead : {0, 8}, parent : ParentRefs, namespace : {1, 4},
     name : UNION {[1..n -> NameUnits] : n \in 0..MaxNameLen},
     overdeclared : BOOLEAN, pad : {0, 2, 8}, second : BOOLEAN]

\* A $FILE_NAME: parent reference, zero timestamps and sizes, the name
\* length, the namespace and the name.
FileNameBytes(parent, name_len, namespace, name) ==
    [i \in 1..FN_NAME_OFFSET |->
        CASE i <= 8 -> parent[i]
          [] i = 65 -> name_len
          [] i = 66 -> namespace
          [] OTHER -> 0]
        \o Concat(name)

ScanBytes(plan) ==
    [i \in 1..plan.lead |-> 0]
        \o FileNameBytes(plan.parent,
                         Len(plan.name) + (IF plan.overdeclared THEN 1 ELSE 0),
                         plan.namespace, plan.name)
        \o [i \in 1..plan.pad |-> 0]
        \o (IF plan.second
            THEN FileNameBytes(<<5, 0, 0, 0, 0, 0, 1, 0>>, 1, 1, <<<<65, 0>>>>)
            ELSE << >>)

\* the argument data
scan_data == ScanBytes(scan_plan)

\* bytes.decode('utf-16-le', errors='ignore'): the code units, without the
\* surrogates that have no partner (the payloads hold no low surrogate).
RECURSIVE DecodeUtf16(_)
DecodeUtf16(bs) ==
    IF Len(bs) < 2 THEN << >>
    ELSE (IF bs[2] \in 216..223 THEN << >> ELSE <<bs[1] + 256 * bs[2]>>)
             \o DecodeUtf16(Slice(bs, 2, Len(bs)))

\* str.isprintable for one code unit of the payloads
IsPrintable(c) == (32 <= c /\ c <= 126) \/ (161 <= c /\ c # 173)

\* all(c.isprintable() or c in ' .\t' for c in filename)
NameAllowed(filename) ==
    \A k \in 1..Len(filename) :
        IsPrintable(filename[k]) \/ filename[k] \in {32, 46, 9}

\* The parent test with the bound 2^40.
ParentEntryBelow2p40(data, offset) == data[offset + 6] = 0

\* parent_ref & 0x0000FFFFFFFFFFFF < 0x1000000000, on the six bytes of the
\* entry number
ParentEntryInRange(data, offset) ==
    data[offset + 6] = 0 /\ data[offset + 5] < 16

\* data[offset + 0x42:name_end].decode(...)
CandidateName(data, offset) ==
    DecodeUtf16(Slice(data, offset + FN_NAME_OFFSET,
                      offset + FN_NAME_OFFSET + 2 * data[offset + 65]))

\* lines 650-663: the tests a candidate passes to be taken
ScanAccepts(data, offset) ==
    IF ~(1 <= data[offset + 65] /\ data[offset + 65] <= 255 /\ data[offset + 66] <= 3)
    THEN FALSE
    ELSE IF offset + FN_NAME_OFFSET + 2 * data[offset + 65] > Len(data) THEN FALSE
    ELSE /\ CandidateName(data, offset) # << >>
         /\ NameAllowed(CandidateName(data, offset))
         /\ ParentEntryInRange(data, offset)

ScanStart ==
    /\ scan_plan \in ScanPlans
    /\ scan_offset = 0
    /\ scan_filename = << >>
    /\ scan_parent = << >>
    /\ scan_pc = "scan"

ScanIdle ==
    /\ scan_plan = << >>
    /\ scan_offset = 0
    /\ scan_filename = << >>
    /\ scan_parent = << >>
    /\ scan_pc = "idle"

\* lines 641-642: the payload is too short
ScanTooShort ==
    /\ UNCHANGED nonScanVars
    /\ scan_pc = "scan"
    /\ Len(scan_data) < FN_MIN_SIZE
    /\ scan_pc' = "done"
    /\ UNCHANGED <<scan_plan, scan_offset, scan_filename, scan_parent>>

\* line 645: range(0, len(data) - 0x44, 8) is exhausted
ScanEnd ==
    /\ UNCHANGED nonScanVars
    /\ scan_pc = "scan"
    /\ Len(scan_data) >= FN_MIN_SIZE
    /\ scan_offset >= Len(scan_data) - FN_MIN_SIZE
    /\ scan_pc' = "done"
    /\ UNCHANGED <<scan_plan, scan_offset, scan_filename, scan_parent>>

\* lines 646-663: the candidate at offset is not taken
ScanReject ==
    /\ UNCHANGED nonScanVars
    /\ scan_pc = "scan"
    /\ Len(scan_data) >= FN_MIN_SIZE
    /\ scan_offset < Len(scan_data) - FN_MIN_SIZE
    /\ ~ScanAccepts(scan_data, scan_offset)
    /\ scan_offset' = scan_offset + 8
    /\ UNCHANGED <<scan_plan, scan_filename, scan_parent, scan_pc>>

\* lines 664-676: the candidate at offset is taken
ScanAccept ==
    /\ UNCHANGED nonScanVars
    /\ scan_pc = "scan"
    /\ Len(scan_data) >= FN_MIN_SIZE
    /\ scan_offset < Len(scan_data) - FN_MIN_SIZE
    /\ ScanAccepts(scan_data, scan_offset)
    /\ scan_filename' = CandidateName(scan_data, scan_offset)
    /\ scan_parent' = Slice(scan_data, scan_offset, scan_offset + 8)
    /\ scan_pc' = "done"
    /\ UNCHANGED <<scan_plan, scan_offset>>

NextScan ==
    \/ ScanTooShort
    \/ ScanEnd
    \/ ScanReject
    \/ ScanAccept

(***************************************************************************)
(* LogFileParser._parse_client_data and the decoders it calls              *)
(***************************************************************************)
\* filename_ops = [0x0C, 0x0D, 0x0E, 0x0F, 0x10, 0x12]
filename_ops == {12, 13, 14, 15, 16, 18}

\* OPCODE_NAMES.get(record.redo_op, f"Op0x{record.redo_op:02X}"), for the
\* opcodes of the model
OpcodeName(op) ==
    CASE op = 2 -> "InitializeFileRecordSegment"
      [] op = 5 -> "CreateAttribute"
      [] op = 13 -> "DeleteIndexEntryRoot"
      [] op = 14 -> "AddIndexEntryAllocation"
      [] OTHER -> "Op0x"

\* ---- the input records
\* The file reference of the index entry: entry 7 and entry 2^36.
FileRefs == {<<7, 0, 0, 0, 0, 0, 1, 0>>, <<0, 0, 0, 0, 16, 0, 1, 0>>}

ClientPlans ==
    [redo_op : {14, 2, 5}, undo_op : {13, 0}, redo_offset : {0, 8},
     redo_window : {"entry", "none", "beyond"}, file_ref : FileRefs,
     entry_len_set : BOOLEAN, namespace : {1, 4},
     name : UNION {[1..n -> NameUnits] : n \in 0..MaxNameLen}, pad : {0, 8}]

\* An index entry: file reference, entry length, $FILE_NAME length, flags,
\* and the $FILE_NAME at 0x10.
IndexEntryBytes(plan) ==
    [i \in 1..16 |->
        CASE i <= 8 -> plan.file_ref[i]
          [] i = 9 -> (IF plan.entry_len_set
                       THEN 16 + FN_NAME_OFFSET + 2 * Len(plan.name) ELSE 16)
          [] i = 11 -> FN_NAME_OFFSET + 2 * Len(plan.name)
          [] OTHER -> 0]
        \o FileNameBytes(<<5, 0, 0, 0, 0, 0, 1, 0>>, Len(plan.name),
                         plan.namespace, plan.name)

\* client_data: zeros up to redo_offset, the index entry, zeros after it
ClientBytes(plan) ==
    [i \in 1..plan.redo_offset |-> 0] \o IndexEntryBytes(plan)
        \o [i \in 1..plan.pad |-> 0]

\* record.redo_length, which is also record.undo_length
RedoLength(plan) ==
    CASE plan.redo_window = "entry" -> Len(IndexEntryBytes(plan))
      [] plan.redo_window = "none" -> 0
      [] plan.redo_window = "beyond" -> Len(IndexEntryBytes(plan)) + 100

\* the argument data
client_data == ClientBytes(client_plan)

\* record.redo_length > 0 and record.redo_offset + record.redo_length <= len(data)
WindowInData(offset, length, data) == length > 0 /\ offset + length <= Len(data)

\* data[record.redo_offset:record.redo_offset + record.redo_length]
redo_data ==
    Slice(client_data, client_plan.redo_offset,
          client_plan.redo_offset + RedoLength(client_plan))

HasRedoWindow ==
    WindowInData(client_plan.redo_offset, RedoLength(client_plan), client_data)

\* the $FILE_NAME of an index entry starts at 0x10
FileNameOffsetInEntry == 16

\* _parse_filename_attribute(record, data, offset), lines 574-615
ParseFilenameAttribute(rec, data, offset) ==
    IF offset + FN_MIN_SIZE > Len(data) THEN rec
    ELSE IF data[offset + 65] < 1 \/ data[offset + 65] > 255 \/ data[offset + 66] > 3
    THEN rec
    ELSE IF offset + FN_NAME_OFFSET + 2 * data[offset + 65] > Len(data) THEN rec
    ELSE IF CandidateName(data, offset) = << >> THEN rec
    ELSE IF ~NameAllowed(CandidateName(data, offset)) THEN rec
    ELSE [rec EXCEPT !.filename = CandidateName(data, offset),
                     !.parent_reference = Slice(data, offset, offset + 8)]

\* file_entry < 0x1000000000 and entry_len > 0x10 and filename_attr_len > 0
IndexHeaderAccepted(data) ==
    ParentEntryInRange(data, 0) /\ U16(data, 8) > 16 /\ U16(data, 10) > 0

\* _extract_filename_from_index_entry(record, data), lines 532-556
ExtractFilenameFromIndexEntry(rec, data) ==
    IF Len(data) < 82 THEN ParseFilenameAttribute(rec, data, 0)
    ELSE LET withRef == IF IndexHeaderAccepted(data)
                        THEN [rec EXCEPT !.file_reference = Slice(data, 0, 8)]
                        ELSE rec
             atEntry == IF IndexHeaderAccepted(data)
                           /\ Len(data) >= FileNameOffsetInEntry + FN_MIN_SIZE
                        THEN ParseFilenameAttribute(withRef, data, FileNameOffsetInEntry)
                        ELSE withRef
         IN  IF atEntry.filename # << >> THEN atEntry
             ELSE ParseFilenameAttribute(atEntry, data, 0)

\* _scan_for_filename(record, data), lines 640-679, as one step
ScanForFilename(rec, data) ==
    IF Len(data) < FN_MIN_SIZE THEN rec
    ELSE LET hits == {o \in 0..(Len(data) - FN_MIN_SIZE - 1) :
                          o % 8 = 0 /\ ScanAccepts(data, o)}
         IN  IF hits = {} THEN rec
             ELSE [rec EXCEPT !.filename = CandidateName(data, Min(hits)),
                              !.parent_reference = Slice(data, Min(hits), Min(hits) + 8)]

\* _parse_attribute_for_filename(record, data), lines 620-638
ParseAttributeForFilename(rec, data) ==
    IF Len(data) < 24 THEN rec
    ELSE IF U32(data, 0) = 48
    THEN (IF U32(data, 4) > 24 /\ Len(data) > 24
          THEN ParseFilenameAttribute(rec, data, 24) ELSE rec)
    ELSE ScanForFilename(rec, data)

ClientStart ==
    /\ client_plan \in ClientPlans
    /\ log_record = [redo_op |-> client_plan.redo_op, undo_op |-> client_plan.undo_op,
                     event |-> OpcodeName(client_plan.redo_op),
                     filename |-> << >>, file_reference |-> << >>,
                     parent_reference |-> << >>]
    /\ client_pc = "redo"

ClientIdle ==
    /\ client_plan = << >>
    /\ log_record = << >>
    /\ client_pc = "idle"

\* lines 471-476: the redo window as an index entry
ClientRedo ==
    /\ UNCHANGED nonClientVars
    /\ client_pc = "redo"
    /\ log_record' =
           IF log_record.redo_op \in filename_ops /\ HasRedoWindow
           THEN ExtractFilenameFromIndexEntry(log_record, redo_data)
           ELSE log_record
    /\ client_pc' = "whole"
    /\ UNCHANGED client_plan

\* lines 478-479: the whole client data as an index entry
ClientWhole ==
    /\ UNCHANGED nonClientVars
    /\ client_pc = "whole"
    /\ log_record' =
           IF log_record.redo_op \in filename_ops /\ log_record.filename = << >>
           THEN ExtractFilenameFromIndexEntry(log_record, client_data)
           ELSE log_record
    /\ client_pc' = "undo"
    /\ UNCHANGED client_plan

\* lines 482-485: the undo window, which the records of the model lay over
\* the redo window
ClientUndo ==
    /\ UNCHANGED nonClientVars
    /\ client_pc = "undo"
    /\ log_record' =
           IF log_record.filename = << >> /\ log_record.undo_op \in filename_ops
              /\ HasRedoWindow
           THEN ExtractFilenameFromIndexEntry(log_record, redo_data)
           ELSE log_record
    /\ client_pc' = "init"
    /\ UNCHANGED client_plan

\* lines 488-493: InitializeFileRecordSegment
ClientInitSegment ==
    /\ UNCHANGED nonClientVars
    /\ client_pc = "init"
    /\ log_record' =
           IF log_record.filename = << >> /\ log_record.redo_op = 2
           THEN LET first == IF HasRedoWindow
                             THEN ScanForFilename(log_record, redo_data)
                             ELSE log_record
                IN  IF first.filename = << >> THEN ScanForFilename(first, client_data)
                    ELSE first
           ELSE log_record
    /\ client_pc' = "attr"
    /\ UNCHANGED client_plan

\* lines 496-501: CreateAttribute and DeleteAttribute
ClientAttribute ==
    /\ UNCHANGED nonClientVars
    /\ client_pc = "attr"
    /\ log_record' =
           IF log_record.filename = << >> /\ log_record.redo_op \in {5, 6}
           THEN LET first == IF HasRedoWindow
                             THEN ParseAttributeForFilename(log_record, redo_data)
                             ELSE log_record
                IN  IF first.filename = << >>
                    THEN ParseAttributeForFilename(first, client_data)
                    ELSE first
           ELSE log_record
    /\ client_pc' = "final"
    /\ UNCHANGED client_plan

\* lines 504-505: the last scan of the whole client data
ClientFinalScan ==
    /\ UNCHANGED nonClientVars
    /\ client_pc = "final"
    /\ log_record' =
           IF log_record.filename = << >> /\ Len(client_data) >= FN_MIN_SIZE
           THEN ScanForFilename(log_record, client_data)
           ELSE log_record
    /\ client_pc' = "done"
    /\ UNCHANGED client_plan

NextClient ==
    \/ ClientRedo
    \/ ClientWhole
    \/ ClientUndo
    \/ ClientInitSegment
    \/ ClientAttribute
    \/ ClientFinalScan

(***************************************************************************)
(* MFTEntry._parse_attribute, _parse_resident_attr, _parse_non_resident_attr*)
(* and the $DATA size loop of MFTEntry.to_record                           *)
(***************************************************************************)
\* Lengths of an attribute on disk: below the 48 bytes of a non-resident
\* header, below the 64 bytes that hold real_size, and a full header.
AttrLengths == {40, 56, 72}

\* Values of the 8-byte size fields of a non-resident header.
AllocatedSizes == {4096, 8192}

RealSizes == {5000, 8192}

\* Content sizes of a resident attribute.
ContentSizes == {0, 3, 100}

\* start_vcn of a non-resident attribute: 0 in the first extent.
StartVcns == {0, 4}

\* content_offset of the resident attributes of the model
ContentOffset == 24

\* A $DATA attribute as laid out on disk: unnamed, with a name that lies
\* outside the attribute, or named.
DataAttrPlans ==
    [type : {DATA}, name : {"", "unreadable", "ads"}, non_resident : BOOLEAN,
     start_vcn : StartVcns, length : AttrLengths,
     allocated_size : AllocatedSizes, real_size : RealSizes,
     content_size : ContentSizes]

\* An attribute the loop passes over: $FILE_NAME, or a named $DATA stream.
OtherAttrPlan(type, name) ==
    [type |-> type, name |-> name, non_resident |-> FALSE, start_vcn |-> 0,
     length |-> 72, allocated_size |-> 4096, real_size |-> 5000,
     content_size |-> 3]

\* A second unnamed $DATA attribute after the first.
SecondDataPlan ==
    [type |-> DATA, name |-> "", non_resident |-> TRUE, start_vcn |-> 0,
     length |-> 72, allocated_size |-> 4096, real_size |-> 77,
     content_size |-> 0]

\* The entries of the model: what precedes the $DATA attribute,
\* the attribute, what follows it, and the real_size that the first
\* (VCN-0) extent of the same stream carries in another record.
SizePlans ==
    [lead : {"none", "file_name", "named_data"}, main : DataAttrPlans,
     trail : BOOLEAN, first_extent_real_size : RealSizes]

AttrPlansOf(plan) ==
    (CASE plan.lead = "none" -> << >>
       [] plan.lead = "file_name" -> <<OtherAttrPlan(FILE_NAME, "")>>
       [] plan.lead = "named_data" -> <<OtherAttrPlan(DATA, "ads")>>)
        \o <<plan.main>>
        \o (IF plan.trail THEN <<SecondDataPlan>> ELSE << >>)

\* _parse_resident_attr: attr['data'], by its length
ParseResidentAttr(attr, a) ==
    IF a.length < 24 THEN attr
    ELSE [attr EXCEPT !.has_data = TRUE,
                      !.data_len = IF ContentOffset + a.content_size <= a.length
                                   THEN a.content_size ELSE 0]

\* _parse_non_resident_attr
ParseNonResidentAttr(attr, a) ==
    IF a.length < 48 THEN attr
    ELSE [attr EXCEPT !.start_vcn = a.start_vcn,
                      !.allocated_size = a.allocated_size,
                      !.has_real_size = TRUE,
                      !.real_size = IF a.start_vcn = 0 /\ a.length >= 64
                                    THEN a.real_size ELSE a.allocated_size]

\* _parse_attribute: the dict of one attribute
ParseAttribute(a) ==
    LET attr == [type |-> a.type, non_resident |-> a.non_resident,
                 has_name |-> a.name # "unreadable",
                 name |-> IF a.name = "unreadable" THEN "" ELSE a.name,
                 start_vcn |-> 0, allocated_size |-> 0,
                 has_real_size |-> FALSE, real_size |-> 0,
                 has_data |-> FALSE, data_len |-> 0]
    IN  IF a.non_resident THEN ParseNonResidentAttr(attr, a)
        ELSE ParseResidentAttr(attr, a)

\* self.attributes
size_attributes ==
    [i \in 1..Len(AttrPlansOf(size_plan)) |-> ParseAttribute(AttrPlansOf(size_plan)[i])]

\* attr['type'] == AttrType.DATA and attr.get('name', '') == ''
IsUnnamedData(attr) ==
    attr.type = DATA /\ (IF attr.has_name THEN attr.name = "" ELSE TRUE)

\* attr.get('real_size', 0)
GetRealSize(attr) == IF attr.has_real_size THEN attr.real_size ELSE 0

\* len(attr.get('data', b''))
GetDataLen(attr) == IF attr.has_data THEN attr.data_len ELSE 0

SizeStart ==
    /\ size_plan \in SizePlans
    /\ size_index = 1
    /\ data_size = 0
    /\ is_resident = TRUE
    /\ size_pc = "loop"

SizeIdle ==
    /\ size_plan = << >>
    /\ size_index = 0
    /\ data_size = 0
    /\ is_resident = TRUE
    /\ size_pc = "idle"

\* an attribute that is not the unnamed $DATA
SizeSkip ==
    /\ UNCHANGED nonSizeVars
    /\ size_pc = "loop"
    /\ size_index <= Len(size_attributes)
    /\ ~IsUnnamedData(size_attributes[size_index])
    /\ size_index' = size_index + 1
    /\ UNCHANGED <<size_plan, data_size, is_resident, size_pc>>

\* the unnamed $DATA is non-resident: real_size, then break
SizeNonResident ==
    /\ UNCHANGED nonSizeVars
    /\ size_pc = "loop"
    /\ size_index <= Len(size_attributes)
    /\ IsUnnamedData(size_attributes[size_index])
    /\ size_attributes[size_index].non_resident
    /\ is_resident' = FALSE
    /\ data_size' = GetRealSize(size_attributes[size_index])
    /\ size_pc' = "done"
    /\ UNCHANGED <<size_plan, size_index>>

\* the unnamed $DATA is resident: the length of its content, then break
SizeResident ==
    /\ UNCHANGED nonSizeVars
    /\ size_pc = "loop"
    /\ size_index <= Len(size_attributes)
    /\ IsUnnamedData(size_attributes[size_index])
    /\ ~size_attributes[size_index].non_resident
    /\ is_resident' = TRUE
    /\ data_size' = GetDataLen(size_attributes[size_index])
    /\ size_pc' = "done"
    /\ UNCHANGED <<size_plan, size_index>>

\* the loop ends without an unnamed $DATA
SizeLoopEnd ==
    /\ UNCHANGED nonSizeVars
    /\ size_pc = "loop"
    /\ size_index > Len(size_attributes)
    /\ size_pc' = "done"
    /\ UNCHANGED <<size_plan, size_index, data_size, is_resident>>

NextSize ==
    \/ SizeSkip
    \/ SizeNonResident
    \/ SizeResident
    \/ SizeLoopEnd

(***************************************************************************)
(* UnifiedAnalyzer._iter_all_records                                       *)
(***************************************************************************)
MaxMftRecords == 2
MaxUsnRecords == 2
MaxLogRecords == 2

\* FILETIME ticks (100 ns) in a second
TicksPerSecond == 10000000

\* Raw $STANDARD_INFORMATION times of an MFT record, created and modified:
\* both unset, equal, apart within one second, apart by a second, and
\* only the modification time set.
SiTimes ==
    {<<0, 0>>, <<TicksPerSecond, TicksPerSecond>>,
     <<TicksPerSecond, TicksPerSecond + 1>>,
     <<TicksPerSecond, 2 * TicksPerSecond>>, <<0, TicksPerSecond>>}

\* A LogFile record: with an event name, or with neither filename nor event.
LogKinds == {"event", "blank"}

TimelinePlans ==
    [mft : {"none", "missing", "present"},
     mft_records : UNION {[1..n -> SiTimes] : n \in 0..MaxMftRecords},
     usn : BOOLEAN, usn_records : 0..MaxUsnRecords,
     logfile : BOOLEAN,
     log_records : UNION {[1..n -> LogKinds] : n \in 0..MaxLogRecords}]

\* format_timestamp(filetime_to_datetime(filetime)): empty for 0, else the
\* time to the second
FormatTimestamp(filetime) ==
    IF filetime <= 0 THEN << >> ELSE <<filetime \div TicksPerSecond>>

\* record.si_created and record.si_modified of the i-th record of the MFT;
\* its entry_number is i - 1
SiCreated(plan, i) == FormatTimestamp(plan.mft_records[i][1])

SiModified(plan, i) == FormatTimestamp(plan.mft_records[i][2])

\* MFTParser.build_path_cache: one path for every entry of the MFT, here
\* of entries directly under the root
BuiltPathCache(plan) ==
    {<<i - 1, <<Backslash, 64 + i>>>> : i \in 1..Len(plan.mft_records)}

\* self.path_cache.get(entry_number, "")
CacheGet(cache, entry) ==
    IF \E p \in cache : p[1] = entry
    THEN (CHOOSE p \in cache : p[1] = entry)[2]
    ELSE << >>

\* The order with the LogFile block before the UsnJrnl block.
SwappedSourceOrder == <<"MFT", "LogFile", "UsnJrnl">>

\* The sources in the order of the blocks of _iter_all_records.
SourceOrder == <<"MFT", "UsnJrnl", "LogFile">>

\* The position that begins the block after the block of `source`.
BlockAfter(source) ==
    LET k == CHOOSE i \in 1..3 : SourceOrder[i] = source
    IN  IF k = 3 THEN "done" ELSE SourceOrder[k + 1]

\* a UnifiedRecord, with the position of its record in its decoder's output
UnifiedRecord(source, event, rec, timestamp, full_path) ==
    [source |-> source, event |-> event, rec |-> rec,
     timestamp |-> timestamp, full_path |-> full_path]

\* The test without the comparison to si_created.
ModifyAlways(plan, i) == SiModified(plan, i) # << >>

\* if record.si_modified and record.si_modified != record.si_created
ModifyEmitted(plan, i) ==
    SiModified(plan, i) # << >> /\ SiModified(plan, i) # SiCreated(plan, i)

TimelineStart ==
    /\ timeline_plan \in TimelinePlans
    /\ timeline_pc = SourceOrder[1]
    /\ timeline_index = 0
    /\ timeline = << >>
    /\ mft_path_cache = {}
    /\ usn_path_cache = {}
    /\ cache_builds = 0

TimelineIdle ==
    /\ timeline_plan = << >>
    /\ timeline_pc = "idle"
    /\ timeline_index = 0
    /\ timeline = << >>
    /\ mft_path_cache = {}
    /\ usn_path_cache = {}
    /\ cache_builds = 0

\* if mft_path and Path(mft_path).exists(): false
TimelineNoMft ==
    /\ UNCHANGED nonTimelineVars
    /\ timeline_pc = "MFT"
    /\ timeline_plan.mft # "present"
    /\ timeline_pc' = BlockAfter("MFT")
    /\ UNCHANGED <<timeline_plan, timeline_index, timeline, mft_path_cache,
                   usn_path_cache, cache_builds>>

\* parser.iter_entries_with_paths(): build_path_cache, then the entries
TimelineMftBegin ==
    /\ UNCHANGED nonTimelineVars
    /\ timeline_pc = "MFT"
    /\ timeline_plan.mft = "present"
    /\ mft_path_cache' = BuiltPathCache(timeline_plan)
    /\ cache_builds' = cache_builds + 1
    /\ timeline_index' = 1
    /\ timeline_pc' = "mft_create"
    /\ UNCHANGED <<timeline_plan, timeline, usn_path_cache>>

\* if record.si_created: yield FileCreate (SI)
TimelineMftCreate ==
    /\ UNCHANGED nonTimelineVars
    /\ timeline_pc = "mft_create"
    /\ timeline_index <= Len(timeline_plan.mft_records)
    /\ SiCreated(timeline_plan, timeline_index) # << >>
    /\ timeline' = Append(timeline,
           UnifiedRecord("MFT", "FileCreate (SI)", timeline_index,
                         SiCreated(timeline_plan, timeline_index),
                         CacheGet(mft_path_cache, timeline_index - 1)))
    /\ timeline_pc' = "mft_modify"
    /\ UNCHANGED <<timeline_plan, timeline_index, mft_path_cache,
                   usn_path_cache, cache_builds>>

TimelineMftNoCreate ==
    /\ UNCHANGED nonTimelineVars
    /\ timeline_pc = "mft_create"
    /\ timeline_index <= Len(timeline_plan.mft_records)
    /\ SiCreated(timeline_plan, timeline_index) = << >>
    /\ timeline_pc' = "mft_modify"
    /\ UNCHANGED <<timeline_plan, timeline_index, timeline, mft_path_cache,
                   usn_path_cache, cache_builds>>

\* if record.si_modified and record.si_modified != record.si_created:
\* yield FileModify (SI)
TimelineMftModify ==
    /\ UNCHANGED nonTimelineVars
    /\ timeline_pc = "mft_modify"
    /\ ModifyEmitted(timeline_plan, timeline_index)
    /\ timeline' = Append(timeline,
           UnifiedRecord("MFT", "FileModify (SI)", timeline_index,
                         SiModified(timeline_plan, timeline_index),
                         CacheGet(mft_path_cache, timeline_index - 1)))
    /\ timeline_index' = timeline_index + 1
    /\ timeline_pc' = "mft_create"
    /\ UNCHANGED <<timeline_plan, mft_path_cache, usn_path_cache, cache_builds>>

TimelineMftNoModify ==
    /\ UNCHANGED nonTimelineVars
    /\ timeline_pc = "mft_modify"
    /\ ~ModifyEmitted(timeline_plan, timeline_index)
    /\ timeline_index' = timeline_index + 1
    /\ timeline_pc' = "mft_create"
    /\ UNCHANGED <<timeline_plan, timeline, mft_path_cache, usn_path_cache,
                   cache_builds>>

\* the entries of the MFT are exhausted
TimelineMftEnd ==
    /\ UNCHANGED nonTimelineVars
    /\ timeline_pc = "mft_create"
    /\ timeline_index > Len(timeline_plan.mft_records)
    /\ timeline_pc' = BlockAfter("MFT")
    /\ UNCHANGED <<timeline_plan, timeline_index, timeline, mft_path_cache,
                   usn_path_cache, cache_builds>>

\* if usnjrnl_path and Path(usnjrnl_path).exists(): false
TimelineNoUsn ==
    /\ UNCHANGED nonTimelineVars
    /\ timeline_pc = "UsnJrnl"
    /\ ~timeline_plan.usn
    /\ timeline_pc' = BlockAfter("UsnJrnl")
    /\ UNCHANGED <<timeline_plan, timeline_index, timeline, mft_path_cache,
                   usn_path_cache, cache_builds>>

\* parser = UsnJrnlParserWithMFT(...); parser.build_path_cache_from_mft(),
\* which returns at once when the MFT file does not exist and otherwise
\* builds the cache with an MFTParser of its own
TimelineUsnBeginWithMft ==
    /\ UNCHANGED nonTimelineVars
    /\ timeline_pc = "UsnJrnl"
    /\ timeline_plan.usn
    /\ timeline_plan.mft # "none"
    /\ IF timeline_plan.mft = "present"
       THEN /\ usn_path_cache' = BuiltPathCache(timeline_plan)
            /\ cache_builds' = cache_builds + 1
       ELSE UNCHANGED <<usn_path_cache, cache_builds>>
    /\ timeline_index' = 1
    /\ timeline_pc' = "usn_record"
    /\ UNCHANGED <<timeline_plan, timeline, mft_path_cache>>

\* parser = UsnJrnlParser(usnjrnl_path)
TimelineUsnBeginPlain ==
    /\ UNCHANGED nonTimelineVars
    /\ timeline_pc = "UsnJrnl"
    /\ timeline_plan.usn
    /\ timeline_plan.mft = "none"
    /\ timeline_index' = 1
    /\ timeline_pc' = "usn_record"
    /\ UNCHANGED <<timeline_plan, timeline, mft_path_cache, usn_path_cache,
                   cache_builds>>

\* one record of the journal; the i-th record refers to MFT entry i
TimelineUsnRecord ==
    /\ UNCHANGED nonTimelineVars
    /\ timeline_pc = "usn_record"
    /\ timeline_index <= timeline_plan.usn_records
    /\ timeline' = Append(timeline,
           UnifiedRecord("UsnJrnl", "usn", timeline_index, <<timeline_index>>,
                         IF timeline_plan.mft # "none"
                         THEN CacheGet(usn_path_cache, timeline_index)
                         ELSE << >>))
    /\ timeline_index' = timeline_index + 1
    /\ UNCHANGED <<timeline_plan, timeline_pc, mft_path_cache, usn_path_cache,
                   cache_builds>>

TimelineUsnEnd ==
    /\ UNCHANGED nonTimelineVars
    /\ timeline_pc = "usn_record"
    /\ timeline_index > timeline_plan.usn_records
    /\ timeline_pc' = BlockAfter("UsnJrnl")
    /\ UNCHANGED <<timeline_plan, timeline_index, timeline, mft_path_cache,
                   usn_path_cache, cache_builds>>

\* if logfile_path and Path(logfile_path).exists(): false
TimelineNoLog ==
    /\ UNCHANGED nonTimelineVars
    /\ timeline_pc = "LogFile"
    /\ ~timeline_plan.logfile
    /\ timeline_pc' = BlockAfter("LogFile")
    /\ UNCHANGED <<timeline_plan, timeline_index, timeline, mft_path_cache,
                   usn_path_cache, cache_builds>>

\* parser = LogFileParser(logfile_path)
TimelineLogBegin ==
    /\ UNCHANGED nonTimelineVars
    /\ timeline_pc = "LogFile"
    /\ timeline_plan.logfile
    /\ timeline_index' = 1
    /\ timeline_pc' = "log_record"
    /\ UNCHANGED <<timeline_plan, timeline, mft_path_cache, usn_path_cache,
                   cache_builds>>

\* if record.filename or record.event: yield
TimelineLogRecord ==
    /\ UNCHANGED nonTimelineVars
    /\ timeline_pc = "log_record"
    /\ timeline_index <= Len(timeline_plan.log_records)
    /\ timeline_plan.log_records[timeline_index] = "event"
    /\ timeline' = Append(timeline,
           UnifiedRecord("LogFile", "log", timeline_index, <<timeline_index>>,
                         << >>))
    /\ timeline_index' = timeline_index + 1
    /\ UNCHANGED <<timeline_plan, timeline_pc, mft_path_cache, usn_path_cache,
                   cache_builds>>

TimelineLogSkip ==
    /\ UNCHANGED nonTimelineVars
    /\ timeline_pc = "log_record"
    /\ timeline_index <= Len(timeline_plan.log_records)
    /\ timeline_plan.log_records[timeline_index] = "blank"
    /\ timeline_index' = timeline_index + 1
    /\ UNCHANGED <<timeline_plan, timeline_pc, timeline, mft_path_cache,
                   usn_path_cache, cache_builds>>

TimelineLogEnd ==
    /\ UNCHANGED nonTimelineVars
    /\ timeline_pc = "log_record"
    /\ timeline_index > Len(timeline_plan.log_records)
    /\ timeline_pc' = BlockAfter("LogFile")
    /\ UNCHANGED <<timeline_plan, timeline_index, timeline, mft_path_cache,
                   usn_path_cache, cache_builds>>

NextTimeline ==
    \/ TimelineNoMft
    \/ TimelineMftBegin
    \/ TimelineMftCreate
    \/ TimelineMftNoCreate
    \/ TimelineMftModify
    \/ TimelineMftNoModify
    \/ TimelineMftEnd
    \/ TimelineNoUsn
    \/ TimelineUsnBeginWithMft
    \/ TimelineUsnBeginPlain
    \/ TimelineUsnRecord
    \/ TimelineUsnEnd
    \/ TimelineNoLog
    \/ TimelineLogBegin
    \/ TimelineLogRecord
    \/ TimelineLogSkip
    \/ TimelineLogEnd

(***************************************************************************)
(* MFTParser.iter_entries                                                  *)
(***************************************************************************)
MaxSlots == 3

\* The first four bytes of a slot: FILE, BAAD, zeros, and INDX.
SlotSignatures ==
    {MFT_SIGNATURE, MFT_SIGNATURE_BAD, <<0, 0, 0, 0>>, <<73, 78, 68, 88>>}

\* A slot of entry_size bytes: its signature and the IN_USE flag.
Slots == [signature : SlotSignatures, in_use : BOOLEAN]

\* The file is a run of whole slots, then nothing or a part of a slot.
EntriesPlans ==
    [slots : UNION {[1..n -> Slots] : n \in 0..MaxSlots},
     partial_tail : BOOLEAN, include_deleted : BOOLEAN]

\* The signature test that lets BAAD through.
SignatureTestWithoutBaad(signature) ==
    signature \in {MFT_SIGNATURE, MFT_SIGNATURE_BAD}

\* MFTEntry.parse, lines 64-69: the signature is FILE
SignatureAccepted(signature) ==
    /\ signature \in {MFT_SIGNATURE, MFT_SIGNATURE_BAD}
    /\ signature # MFT_SIGNATURE_BAD

\* len(data) < self.entry_size after f.read(self.entry_size): the whole
\* slots are used up, with or without a partial slot behind them
ShortRead(plan, pos) == pos >= Len(plan.slots)

EntriesStart ==
    /\ entries_plan \in EntriesPlans
    /\ entries_pos = 0
    /\ entry_number = 0
    /\ entries_out = << >>
    /\ entries_pc = "read"

EntriesIdle ==
    /\ entries_plan = << >>
    /\ entries_pos = 0
    /\ entry_number = 0
    /\ entries_out = << >>
    /\ entries_pc = "idle"

\* if len(data) < self.entry_size: break
EntriesShortRead ==
    /\ UNCHANGED nonEntriesVars
    /\ entries_pc = "read"
    /\ ShortRead(entries_plan, entries_pos)
    /\ entries_pc' = "done"
    /\ UNCHANGED <<entries_plan, entries_pos, entry_number, entries_out>>

\* entry.parse() is False: nothing yielded
EntriesParseFails ==
    /\ UNCHANGED nonEntriesVars
    /\ entries_pc = "read"
    /\ ~ShortRead(entries_plan, entries_pos)
    /\ ~SignatureAccepted(entries_plan.slots[entries_pos + 1].signature)
    /\ entries_pos' = entries_pos + 1
    /\ entry_number' = entry_number + 1
    /\ UNCHANGED <<entries_plan, entries_out, entries_pc>>

\* if include_deleted or record.in_use: yield record
EntriesYield ==
    /\ UNCHANGED nonEntriesVars
    /\ entries_pc = "read"
    /\ ~ShortRead(entries_plan, entries_pos)
    /\ SignatureAccepted(entries_plan.slots[entries_pos + 1].signature)
    /\ entries_plan.include_deleted \/ entries_plan.slots[entries_pos + 1].in_use
    /\ entries_out' = Append(entries_out,
           [entry_number |-> entry_number, slot |-> entries_pos,
            signature |-> entries_plan.slots[entries_pos + 1].signature])
    /\ entries_pos' = entries_pos + 1
    /\ entry_number' = entry_number + 1
    /\ UNCHANGED <<entries_plan, entries_pc>>

\* a record not in use when include_deleted is False
EntriesDeletedSkipped ==
    /\ UNCHANGED nonEntriesVars
    /\ entries_pc = "read"
    /\ ~ShortRead(entries_plan, entries_pos)
    /\ SignatureAccepted(entries_plan.slots[entries_pos + 1].signature)
    /\ ~(entries_plan.include_deleted \/ entries_plan.slots[entries_pos + 1].in_use)
    /\ entries_pos' = entries_pos + 1
    /\ entry_number' = entry_number + 1
    /\ UNCHANGED <<entries_plan, entries_out, entries_pc>>

NextEntries ==
    \/ EntriesShortRead
    \/ EntriesParseFails
    \/ EntriesYield
    \/ EntriesDeletedSkipped

(***************************************************************************)
(* parse_mft_command, parse_usnjrnl_command, parse_logfile_command,        *)
(* analyze_command, extract_command, extract_analyze_command               *)
(***************************************************************************)
MaxPartitions == 2

ParseCommands == {"parse-mft", "parse-usnjrnl", "parse-logfile"}

ExtractCommands == {"extract", "extract-analyze"}

Commands == ParseCommands \cup {"analyze"} \cup ExtractCommands

\* A path argument: not given, naming no file, naming a file.
PathStates == {"none", "missing", "present"}

\* What the run meets: nothing, an exception of ImageHandler.open (a
\* missing dependency, an I/O error), an exception of
\* find_ntfs_partitions, an exception of the work of the command.
Failures == {"none", "open", "probe", "work"}

\* input is the positional input or image; mft, usnjrnl and logfile are the
\* options of analyze (mft also of parse-usnjrnl); target is
\* args.partition, MaxPartitions + 1 standing for None.
CliPlans ==
    [command : Commands, input : {"missing", "present"}, mft : PathStates,
     usnjrnl : PathStates, logfile : PathStates, fails : Failures,
     partitions : 0..MaxPartitions, target : 0..(MaxPartitions + 1)]

\* ImageHandler.close: no handle is left open
Close(open) == FALSE

\* __exit__ that closes only when the block ends without an exception.
ExitOnSuccessOnly(open, raised) == IF raised THEN open ELSE Close(open)

\* ImageHandler.__exit__(exc_type, exc_val, exc_tb): self.close()
Exit(open, raised) == Close(open)

\* target_partition is not None
TargetGiven(plan) == plan.target <= MaxPartitions

\* target_partition < 0 or target_partition >= len(partitions)
TargetInvalid(plan) == plan.target < 0 \/ plan.target >= plan.partitions

\* len(partitions_to_process)
PartitionsToProcess(plan) == IF TargetGiven(plan) THEN 1 ELSE plan.partitions

CliStart ==
    /\ cli_plan \in CliPlans
    /\ cli_pc = "start"
    /\ exit_code = -1
    /\ handle_open = FALSE
    /\ partition_index = 0

CliIdle ==
    /\ cli_plan = << >>
    /\ cli_pc = "idle"
    /\ exit_code = -1
    /\ handle_open = FALSE
    /\ partition_index = 0

\* if not Path(input_path).exists(): return 1, of the parse commands and
\* of the extract commands
CliInputNotFound ==
    /\ UNCHANGED nonCliVars
    /\ cli_pc = "start"
    /\ cli_plan.command \in ParseCommands \cup ExtractCommands
    /\ cli_plan.input = "missing"
    /\ exit_code' = 1
    /\ cli_pc' = "done"
    /\ UNCHANGED <<cli_plan, handle_open, partition_index>>

\* the try block of a parse command: return 0, or return 1 on an exception
CliParse ==
    /\ UNCHANGED nonCliVars
    /\ cli_pc = "start"
    /\ cli_plan.command \in ParseCommands
    /\ cli_plan.input = "present"
    /\ exit_code' = IF cli_plan.fails = "work" THEN 1 ELSE 0
    /\ cli_pc' = "done"
    /\ UNCHANGED <<cli_plan, handle_open, partition_index>>

\* analyze: if not any([mft_path, usnjrnl_path, logfile_path]): return 1
CliAnalyzeNoInput ==
    /\ UNCHANGED nonCliVars
    /\ cli_pc = "start"
    /\ cli_plan.command = "analyze"
    /\ cli_plan.mft = "none" /\ cli_plan.usnjrnl = "none" /\ cli_plan.logfile = "none"
    /\ exit_code' = 1
    /\ cli_pc' = "done"
    /\ UNCHANGED <<cli_plan, handle_open, partition_index>>

\* analyze: analyzer.analyze_all(...), whose _iter_all_records passes over
\* a path that names no file; return 0, or return 1 on an exception
CliAnalyze ==
    /\ UNCHANGED nonCliVars
    /\ cli_pc = "start"
    /\ cli_plan.command = "analyze"
    /\ ~(cli_plan.mft = "none" /\ cli_plan.usnjrnl = "none" /\ cli_plan.logfile = "none")
    /\ exit_code' = IF cli_plan.fails = "work" THEN 1 ELSE 0
    /\ cli_pc' = "done"
    /\ UNCHANGED <<cli_plan, handle_open, partition_index>>

\* with ImageHandler(image_path) as image: __enter__ raises
CliOpenRaises ==
    /\ UNCHANGED nonCliVars
    /\ cli_pc = "start"
    /\ cli_plan.command \in ExtractCommands
    /\ cli_plan.input = "present"
    /\ cli_plan.fails = "open"
    /\ exit_code' = 1
    /\ cli_pc' = "done"
    /\ UNCHANGED <<cli_plan, handle_open, partition_index>>

\* with ImageHandler(image_path) as image: the handle is open
CliOpen ==
    /\ UNCHANGED nonCliVars
    /\ cli_pc = "start"
    /\ cli_plan.command \in ExtractCommands
    /\ cli_plan.input = "present"
    /\ cli_plan.fails # "open"
    /\ handle_open' = TRUE
    /\ cli_pc' = "probe"
    /\ UNCHANGED <<cli_plan, exit_code, partition_index>>

\* find_ntfs_partitions(image) raises: __exit__, then except: return 1
CliProbeRaises ==
    /\ UNCHANGED nonCliVars
    /\ cli_pc = "probe"
    /\ cli_plan.fails = "probe"
    /\ handle_open' = Exit(handle_open, TRUE)
    /\ exit_code' = 1
    /\ cli_pc' = "done"
    /\ UNCHANGED <<cli_plan, partition_index>>

\* partitions = find_ntfs_partitions(image)
CliProbe ==
    /\ UNCHANGED nonCliVars
    /\ cli_pc = "probe"
    /\ cli_plan.fails # "probe"
    /\ cli_pc' = "select"
    /\ UNCHANGED <<cli_plan, exit_code, handle_open, partition_index>>

\* Invalid partition number: return 1 inside the with block
CliInvalidPartition ==
    /\ UNCHANGED nonCliVars
    /\ cli_pc = "select"
    /\ TargetGiven(cli_plan) /\ TargetInvalid(cli_plan)
    /\ handle_open' = Exit(handle_open, FALSE)
    /\ exit_code' = 1
    /\ cli_pc' = "done"
    /\ UNCHANGED <<cli_plan, partition_index>>

\* partitions_to_process is set
CliSelect ==
    /\ UNCHANGED nonCliVars
    /\ cli_pc = "select"
    /\ ~(TargetGiven(cli_plan) /\ TargetInvalid(cli_plan))
    /\ partition_index' = 0
    /\ cli_pc' = "extract"
    /\ UNCHANGED <<cli_plan, exit_code, handle_open>>

\* the body of the loop raises: __exit__, then except: return 1
CliExtractRaises ==
    /\ UNCHANGED nonCliVars
    /\ cli_pc = "extract"
    /\ partition_index < PartitionsToProcess(cli_plan)
    /\ cli_plan.fails = "work"
    /\ handle_open' = Exit(handle_open, TRUE)
    /\ exit_code' = 1
    /\ cli_pc' = "done"
    /\ UNCHANGED <<cli_plan, partition_index>>

\* one partition is processed
CliExtractPartition ==
    /\ UNCHANGED nonCliVars
    /\ cli_pc = "extract"
    /\ partition_index < PartitionsToProcess(cli_plan)
    /\ cli_plan.fails # "work"
    /\ partition_index' = partition_index + 1
    /\ UNCHANGED <<cli_plan, cli_pc, exit_code, handle_open>>

\* the with block ends: __exit__, then return 0
CliExtractDone ==
    /\ UNCHANGED nonCliVars
    /\ cli_pc = "extract"
    /\ partition_index >= PartitionsToProcess(cli_plan)
    /\ handle_open' = Exit(handle_open, FALSE)
    /\ exit_code' = 0
    /\ cli_pc' = "done"
    /\ UNCHANGED <<cli_plan, partition_index>>

NextCli ==
    \/ CliInputNotFound
    \/ CliParse
    \/ CliAnalyzeNoInput
    \/ CliAnalyze
    \/ CliOpenRaises
    \/ CliOpen
    \/ CliProbeRaises
    \/ CliProbe
    \/ CliInvalidPartition
    \/ CliSelect
    \/ CliExtractRaises
    \/ CliExtractPartition
    \/ CliExtractDone

(***************************************************************************)
(* find_ntfs_partitions and NTFSPartition.parse_boot_sector                *)
(***************************************************************************)
\* ---- the input images
MaxGptEntries == 1

ImageSectors == 4

NtfsOemId == <<78, 84, 70, 83, 32, 32, 32, 32>>

EfiPart == <<69, 70, 73, 32, 80, 65, 82, 84>>

\* bytes.fromhex('A2A0D0EBE5B9334487C068B6B72699C7')
ntfs_guid ==
    <<162, 160, 208, 235, 229, 185, 51, 68, 135, 192, 104, 182, 183, 38, 153, 199>>

OtherGuid == <<1, 0, 0, 0, 0, 0, 0, 0, 0, 0, 0, 0, 0, 0, 0, 0>>

ZeroGuid == <<0, 0, 0, 0, 0, 0, 0, 0, 0, 0, 0, 0, 0, 0, 0, 0>>

\* mbr_sig: sector 0 ends with 55 AA.  ntfs_at: the sectors that carry the
\* NTFS OEM id and the fields bps, spc and raw of a boot sector.  type0,
\* lba0: type and start of MBR entry 0 (entries 1..3 are zero).  Sector 1 is
\* a GPT header when gpt_sig, naming num_entries entries of 128 bytes in
\* sector 2; guid and start_lba are those of GPT entry 0.
PartPlans ==
    [mbr_sig : BOOLEAN, ntfs_at : SUBSET {0, 3}, type0 : {0, 7, 39},
     lba0 : {0, 3}, gpt_sig : BOOLEAN, num_entries : 0..MaxGptEntries,
     guid : {ZeroGuid, ntfs_guid, OtherGuid}, start_lba : {0, 3},
     bps : {0, 512}, spc : {1, 3, 8}, raw : {0, 1, 246}]

\* The byte at offset i of the image.
ImageByte(plan, i) ==
    LET s == i \div 512
        o == i % 512
        boot ==
            CASE o \in 3..10 -> NtfsOemId[o - 2]
              [] o = 11 -> plan.bps % 256
              [] o = 12 -> plan.bps \div 256
              [] o = 13 -> plan.spc
              [] o = 48 -> 4
              [] o = 64 -> plan.raw
              [] OTHER -> 0
        table ==
            CASE o = 450 -> plan.type0
              [] o = 454 -> plan.lba0
              [] o = 510 -> IF plan.mbr_sig THEN 85 ELSE 0
              [] o = 511 -> IF plan.mbr_sig THEN 170 ELSE 0
              [] OTHER -> 0
        header ==
            CASE o \in 0..7 -> IF plan.gpt_sig THEN EfiPart[o + 1] ELSE 0
              [] o = 72 -> 2
              [] o = 80 -> plan.num_entries
              [] o = 84 -> 128
              [] OTHER -> 0
        entry ==
            CASE o \in 0..15 -> plan.guid[o + 1]
              [] o = 32 -> plan.start_lba
              [] OTHER -> 0
    IN  CASE s = 0 -> IF o >= 446 THEN table
                      ELSE IF 0 \in plan.ntfs_at THEN boot ELSE 0
          [] s = 1 -> header
          [] s = 2 -> entry
          [] s \in plan.ntfs_at -> boot
          [] OTHER -> 0

\* ---- ImageHandler.read, lines 59-65: at most size bytes, fewer at the end
Read(plan, offset, size) ==
    LET end == Min({offset + size, ImageSectors * 512})
    IN  IF end <= offset THEN << >>
        ELSE [i \in 1..(end - offset) |-> ImageByte(plan, offset + i - 1)]

\* struct.unpack('<Q'); a value of 2^31 or more reads as Huge
U64(data, off) == IF U32(data, off + 4) = 0 THEN U32(data, off) ELSE Huge

\* struct.unpack('<b')
SignedByte(b) == IF b >= 128 THEN b - 256 ELSE b

RECURSIVE ShiftLeftOne(_)
\* 1 << n
ShiftLeftOne(n) == IF n = 0 THEN 1 ELSE 2 * ShiftLeftOne(n - 1)

\* data[3:11] != b'NTFS    ', lines 96-97
BootSectorAccepted(data) == Slice(data, 3, 11) = NtfsOemId

\* ---- NTFSPartition.parse_boot_sector, lines 92-114, returning True: the
\* partition object after the call
ParseBootSector(data, offset) ==
    LET bytes_per_sector == U16(data, 11)
        sectors_per_cluster == data[13 + 1]
        cluster_size == bytes_per_sector * sectors_per_cluster
        mft_cluster == U64(data, 48)
        mft_entry_size_raw == SignedByte(data[64 + 1])
    IN  [offset |-> offset,
         bytes_per_sector |-> bytes_per_sector,
         sectors_per_cluster |-> sectors_per_cluster,
         cluster_size |-> cluster_size,
         mft_offset |-> offset + (mft_cluster * cluster_size),
         mft_entry_size |->
             IF mft_entry_size_raw > 0
             THEN mft_entry_size_raw * cluster_size
             ELSE ShiftLeftOne(-mft_entry_size_raw)]

\* partition = NTFSPartition(image, offset);
\* if partition.parse_boot_sector(): partitions.append(partition)
Probe(plan, found, offset) ==
    LET data == Read(plan, offset, 512)
    IN  IF BootSectorAccepted(data)
        THEN Append(found, ParseBootSector(data, offset))
        ELSE found

\* mbr[510:512] != b'\x55\xAA', line 130
MbrAbsent(plan) == Slice(Read(plan, 0, 512), 510, 512) # <<85, 170>>

\* gpt_header[:8] == b'EFI PART', line 153
GptPresent(plan) == Slice(Read(plan, 512, 512), 0, 8) = EfiPart

PartStart ==
    /\ part_plan \in PartPlans
    /\ part_pc = "start"
    /\ part_index = 0
    /\ partitions = << >>

PartIdle ==
    /\ part_plan = << >>
    /\ part_pc = "idle"
    /\ part_index = 0
    /\ partitions = << >>

\* lines 129-135: no MBR signature, the image is probed as one volume
PartBareVolume ==
    /\ UNCHANGED nonPartVars
    /\ part_pc = "start"
    /\ MbrAbsent(part_plan)
    /\ partitions' = Probe(part_plan, partitions, 0)
    /\ part_pc' = "done"
    /\ UNCHANGED <<part_plan, part_index>>

\* line 130, the signature is there: the loop over the MBR entries begins
PartMbrFound ==
    /\ UNCHANGED nonPartVars
    /\ part_pc = "start"
    /\ ~MbrAbsent(part_plan)
    /\ part_pc' = "mbr"
    /\ UNCHANGED <<part_plan, part_index, partitions>>

\* lines 138-149: one pass of for i in range(4)
PartMbrEntry ==
    /\ UNCHANGED nonPartVars
    /\ part_pc = "mbr"
    /\ part_index < 4
    /\ LET mbr == Read(part_plan, 0, 512)
           entry_offset == 446 + (part_index * 16)
           entry == Slice(mbr, entry_offset, entry_offset + 16)
           partition_type == entry[4 + 1]
           lba_start == U32(entry, 8)
       IN  partitions' =
               IF partition_type \in {7, 23, 39}
               THEN Probe(part_plan, partitions, lba_start * 512)
               ELSE partitions
    /\ part_index' = part_index + 1
    /\ UNCHANGED <<part_plan, part_pc>>

\* lines 152-153 and 174: sector 1 is no GPT header
PartGptAbsent ==
    /\ UNCHANGED nonPartVars
    /\ part_pc = "mbr"
    /\ part_index = 4
    /\ ~GptPresent(part_plan)
    /\ part_pc' = "done"
    /\ UNCHANGED <<part_plan, part_index, partitions>>

\* lines 152-160: sector 1 is a GPT header
PartGptFound ==
    /\ UNCHANGED nonPartVars
    /\ part_pc = "mbr"
    /\ part_index = 4
    /\ GptPresent(part_plan)
    /\ part_pc' = "gpt"
    /\ part_index' = 0
    /\ UNCHANGED <<part_plan, partitions>>

\* lines 162-172: one pass of for i in range(min(num_entries, 128))
PartGptEntry ==
    /\ UNCHANGED nonPartVars
    /\ part_pc = "gpt"
    /\ LET gpt_header == Read(part_plan, 512, 512)
           partition_entry_lba == U64(gpt_header, 72)
           num_entries == U32(gpt_header, 80)
           entry_size == U32(gpt_header, 84)
           entry_offset == partition_entry_lba * 512 + (part_index * entry_size)
           entry == Read(part_plan, entry_offset, entry_size)
           partition_type_guid == Slice(entry, 0, 16)
           start_lba == U64(entry, 32)
       IN  /\ part_index < Min({num_entries, 128})
           /\ partitions' =
                  IF partition_type_guid = ntfs_guid
                         \/ Slice(entry, 0, 16) # ZeroGuid
                  THEN (IF start_lba > 0
                        THEN Probe(part_plan, partitions, start_lba * 512)
                        ELSE partitions)
                  ELSE partitions
    /\ part_index' = part_index + 1
    /\ UNCHANGED <<part_plan, part_pc>>

\* line 174 after the loop over the GPT entries
PartGptEnd ==
    /\ UNCHANGED nonPartVars
    /\ part_pc = "gpt"
    /\ part_index >= Min({U32(Read(part_plan, 512, 512), 80), 128})
    /\ part_pc' = "done"
    /\ UNCHANGED <<part_plan, part_index, partitions>>

NextPart ==
    \/ PartBareVolume
    \/ PartMbrFound
    \/ PartMbrEntry
    \/ PartGptAbsent
    \/ PartGptFound
    \/ PartGptEntry
    \/ PartGptEnd

(***************************************************************************)
(* LogFileParser.parse_restart_area and LogFileParser.iter_records         *)
(***************************************************************************)
DEFAULT_PAGE_SIZE == 4096

\* ---- the input files
MaxUnits == 6

\* The file is laid out in units of half a default page.
UnitSize == DEFAULT_PAGE_SIZE \div 2

\* What the first four bytes of a unit are.
UnitKinds == {"RSTR", "RCRD", "zero", "junk"}

\* The file holds n whole units and tail more bytes.  first and second are
\* the kinds of the units at offsets 0 and 4096, body those of the units
\* after them; lps is the log_page_size field of the restart pages.
PagesPlans ==
    [n : 0..MaxUnits, tail : {0, 100}, first : {"RSTR", "junk"},
     second : {"RSTR", "junk"}, body : [4..6 -> {"RCRD", "zero", "junk"}],
     lps : {0, UnitSize, 2 * UnitSize, 3 * UnitSize}]

\* self.logfile_path.stat().st_size
FileSize(plan) == plan.n * UnitSize + plan.tail

KindOfUnit(plan, u) ==
    CASE u = 1 -> plan.first
      [] u = 3 -> plan.second
      [] u \in 4..6 -> plan.body[u]
      [] OTHER -> "junk"

\* The first four bytes at a unit boundary, "short" when the file ends
\* before them.
SignatureAt(plan, offset) ==
    IF offset + 4 <= FileSize(plan)
    THEN KindOfUnit(plan, (offset \div UnitSize) + 1)
    ELSE "short"

\* len(f.read(size)) with the file position at offset
ReadLength(plan, offset, size) ==
    IF offset >= FileSize(plan) THEN 0
    ELSE Min({size, FileSize(plan) - offset})

\* ---- RestartPage.parse, lines 122-165, on the bytes read at offset
RestartPageParses(plan, offset) ==
    IF ReadLength(plan, offset, DEFAULT_PAGE_SIZE) < 64 THEN FALSE
    ELSE SignatureAt(plan, offset) = "RSTR"

\* Every page counts as its own size whatever the restart page says.
PageSizeAlwaysDefault(log_page_size) == DEFAULT_PAGE_SIZE

\* self.restart_page.log_page_size or self.DEFAULT_PAGE_SIZE, line 296
PageSizeFrom(log_page_size) ==
    IF log_page_size # 0 THEN log_page_size ELSE DEFAULT_PAGE_SIZE

\* ---- _parse_page_records, lines 330-349, on a page that holds two records
\* without client data and zeros after them: the offsets of the records
PageRecordOffsets == <<HEADER_SIZE, HEADER_SIZE + LOG_RECORD_HEADER_SIZE>>

PagesStart ==
    /\ pages_plan \in PagesPlans
    /\ pages_pc = "restart"
    /\ page_size = DEFAULT_PAGE_SIZE
    /\ page_offset = 0
    /\ examined = << >>
    /\ emitted = << >>

PagesIdle ==
    /\ pages_plan = << >>
    /\ pages_pc = "idle"
    /\ page_size = 0
    /\ page_offset = 0
    /\ examined = << >>
    /\ emitted = << >>

\* lines 284-293 and 300-301: neither restart page parses, iter_records
\* returns
PagesNoRestart ==
    /\ UNCHANGED nonPagesVars
    /\ pages_pc = "restart"
    /\ ~RestartPageParses(pages_plan, 0)
    /\ ~RestartPageParses(pages_plan,
                          ReadLength(pages_plan, 0, DEFAULT_PAGE_SIZE))
    /\ pages_pc' = "done"
    /\ UNCHANGED <<pages_plan, page_size, page_offset, examined, emitted>>

\* lines 284-298 and 303-307: a restart page parses, the loop begins after
\* two pages
PagesRestart ==
    /\ UNCHANGED nonPagesVars
    /\ pages_pc = "restart"
    /\ \/ RestartPageParses(pages_plan, 0)
       \/ RestartPageParses(pages_plan,
                            ReadLength(pages_plan, 0, DEFAULT_PAGE_SIZE))
    /\ page_size' = PageSizeFrom(pages_plan.lps)
    /\ page_offset' = PageSizeFrom(pages_plan.lps) * 2
    /\ pages_pc' = "loop"
    /\ UNCHANGED <<pages_plan, examined, emitted>>

\* line 309: while page_offset < file_size ends
PagesEnd ==
    /\ UNCHANGED nonPagesVars
    /\ pages_pc = "loop"
    /\ ~(page_offset < FileSize(pages_plan))
    /\ pages_pc' = "done"
    /\ UNCHANGED <<pages_plan, page_size, page_offset, examined, emitted>>

\* lines 310-314: the read is short, break
PagesShortRead ==
    /\ UNCHANGED nonPagesVars
    /\ pages_pc = "loop"
    /\ page_offset < FileSize(pages_plan)
    /\ ReadLength(pages_plan, page_offset, page_size) < page_size
    /\ pages_pc' = "done"
    /\ UNCHANGED <<pages_plan, page_size, page_offset, examined, emitted>>

\* lines 316-319: a page of zeros is passed over
PagesSkipZero ==
    /\ UNCHANGED nonPagesVars
    /\ pages_pc = "loop"
    /\ page_offset < FileSize(pages_plan)
    /\ ~(ReadLength(pages_plan, page_offset, page_size) < page_size)
    /\ SignatureAt(pages_plan, page_offset) = "zero"
    /\ examined' = Append(examined, page_offset)
    /\ page_offset' = page_offset + page_size
    /\ UNCHANGED <<pages_plan, pages_pc, page_size, emitted>>

\* lines 321-327: RecordPage.parse succeeds and the records of the page are
\* yielded
PagesRecordPage ==
    /\ UNCHANGED nonPagesVars
    /\ pages_pc = "loop"
    /\ page_offset < FileSize(pages_plan)
    /\ ~(ReadLength(pages_plan, page_offset, page_size) < page_size)
    /\ SignatureAt(pages_plan, page_offset) = "RCRD"
    /\ page_size >= HEADER_SIZE
    /\ examined' = Append(examined, page_offset)
    /\ emitted' = emitted \o
           [k \in 1..Len(PageRecordOffsets) |->
               [page |-> page_offset, offset |-> PageRecordOffsets[k]]]
    /\ page_offset' = page_offset + page_size
    /\ UNCHANGED <<pages_plan, pages_pc, page_size>>

\* lines 321-327: RecordPage.parse fails, nothing is yielded
PagesOtherPage ==
    /\ UNCHANGED nonPagesVars
    /\ pages_pc = "loop"
    /\ page_offset < FileSize(pages_plan)
    /\ ~(ReadLength(pages_plan, page_offset, page_size) < page_size)
    /\ IF SignatureAt(pages_plan, page_offset) = "RCRD"
       THEN page_size < HEADER_SIZE
       ELSE SignatureAt(pages_plan, page_offset) # "zero"
    /\ examined' = Append(examined, page_offset)
    /\ page_offset' = page_offset + page_size
    /\ UNCHANGED <<pages_plan, pages_pc, page_size, emitted>>

NextPages ==
    \/ PagesNoRestart
    \/ PagesRestart
    \/ PagesEnd
    \/ PagesShortRead
    \/ PagesSkipZero
    \/ PagesRecordPage
    \/ PagesOtherPage

(***************************************************************************)
(* Specifications                                                          *)
(***************************************************************************)
InitUsn == UsnStart /\ MftIdle /\ RunIdle /\ NameIdle /\ PathIdle
    /\ CollectIdle /\ ExtractIdle /\ LogIdle /\ ScanIdle /\ ClientIdle
    /\ SizeIdle /\ TimelineIdle /\ EntriesIdle /\ CliIdle /\ PartIdle
    /\ PagesIdle

SpecUsn == InitUsn /\ [][NextUsn]_vars

\* The generator is driven by a consumer that keeps pulling.
FairSpecUsn == SpecUsn /\ WF_vars(NextUsn)

InitMft == MftStart /\ UsnIdle /\ RunIdle /\ NameIdle /\ PathIdle
    /\ CollectIdle /\ ExtractIdle /\ LogIdle /\ ScanIdle /\ ClientIdle
    /\ SizeIdle /\ TimelineIdle /\ EntriesIdle /\ CliIdle /\ PartIdle
    /\ PagesIdle

SpecMft == InitMft /\ [][NextMft]_vars

InitRun == RunStart /\ UsnIdle /\ MftIdle /\ NameIdle /\ PathIdle
    /\ CollectIdle /\ ExtractIdle /\ LogIdle /\ ScanIdle /\ ClientIdle
    /\ SizeIdle /\ TimelineIdle /\ EntriesIdle /\ CliIdle /\ PartIdle
    /\ PagesIdle

SpecRun == InitRun /\ [][NextRun]_vars

InitName == NameStart /\ UsnIdle /\ MftIdle /\ RunIdle /\ PathIdle
    /\ CollectIdle /\ ExtractIdle /\ LogIdle /\ ScanIdle /\ ClientIdle
    /\ SizeIdle /\ TimelineIdle /\ EntriesIdle /\ CliIdle /\ PartIdle
    /\ PagesIdle

SpecName == InitName /\ [][NextName]_vars

InitPath == PathStart /\ UsnIdle /\ MftIdle /\ RunIdle /\ NameIdle
    /\ CollectIdle /\ ExtractIdle /\ LogIdle /\ ScanIdle /\ ClientIdle
    /\ SizeIdle /\ TimelineIdle /\ EntriesIdle /\ CliIdle /\ PartIdle
    /\ PagesIdle

SpecPath == InitPath /\ [][NextPath]_vars

\* build_path_cache runs to its end when called.
FairSpecPath == SpecPath /\ WF_vars(NextPath)

InitCollect == CollectStart /\ UsnIdle /\ MftIdle /\ RunIdle /\ NameIdle
    /\ PathIdle /\ ExtractIdle /\ LogIdle /\ ScanIdle /\ ClientIdle
    /\ SizeIdle /\ TimelineIdle /\ EntriesIdle /\ CliIdle /\ PartIdle
    /\ PagesIdle

SpecCollect == InitCollect /\ [][NextCollect]_vars

InitExtract == ExtractStart /\ UsnIdle /\ MftIdle /\ RunIdle /\ NameIdle
    /\ PathIdle /\ CollectIdle /\ LogIdle /\ ScanIdle /\ ClientIdle
    /\ SizeIdle /\ TimelineIdle /\ EntriesIdle /\ CliIdle /\ PartIdle
    /\ PagesIdle

SpecExtract == InitExtract /\ [][NextExtract]_vars

InitLog == LogStart /\ UsnIdle /\ MftIdle /\ RunIdle /\ NameIdle /\ PathIdle
    /\ CollectIdle /\ ExtractIdle /\ ScanIdle /\ ClientIdle /\ SizeIdle
    /\ TimelineIdle /\ EntriesIdle /\ CliIdle /\ PartIdle /\ PagesIdle

SpecLog == InitLog /\ [][NextLog]_vars

InitScan == ScanStart /\ UsnIdle /\ MftIdle /\ RunIdle /\ NameIdle
    /\ PathIdle /\ CollectIdle /\ ExtractIdle /\ LogIdle /\ ClientIdle
    /\ SizeIdle /\ TimelineIdle /\ EntriesIdle /\ CliIdle /\ PartIdle
    /\ PagesIdle

SpecScan == InitScan /\ [][NextScan]_vars

InitClient == ClientStart /\ UsnIdle /\ MftIdle /\ RunIdle /\ NameIdle
    /\ PathIdle /\ CollectIdle /\ ExtractIdle /\ LogIdle /\ ScanIdle
    /\ SizeIdle /\ TimelineIdle /\ EntriesIdle /\ CliIdle /\ PartIdle
    /\ PagesIdle

SpecClient == InitClient /\ [][NextClient]_vars

InitSize == SizeStart /\ UsnIdle /\ MftIdle /\ RunIdle /\ NameIdle
    /\ PathIdle /\ CollectIdle /\ ExtractIdle /\ LogIdle /\ ScanIdle
    /\ ClientIdle /\ TimelineIdle /\ EntriesIdle /\ CliIdle /\ PartIdle
    /\ PagesIdle

SpecSize == InitSize /\ [][NextSize]_vars

InitTimeline == TimelineStart /\ UsnIdle /\ MftIdle /\ RunIdle /\ NameIdle
    /\ PathIdle /\ CollectIdle /\ ExtractIdle /\ LogIdle /\ ScanIdle
    /\ ClientIdle /\ SizeIdle /\ EntriesIdle /\ CliIdle /\ PartIdle
    /\ PagesIdle

SpecTimeline == InitTimeline /\ [][NextTimeline]_vars

InitEntries == EntriesStart /\ UsnIdle /\ MftIdle /\ RunIdle /\ NameIdle
    /\ PathIdle /\ CollectIdle /\ ExtractIdle /\ LogIdle /\ ScanIdle
    /\ ClientIdle /\ SizeIdle /\ TimelineIdle /\ CliIdle /\ PartIdle
    /\ PagesIdle

SpecEntries == InitEntries /\ [][NextEntries]_vars

InitCli == CliStart /\ UsnIdle /\ MftIdle /\ RunIdle /\ NameIdle /\ PathIdle
    /\ CollectIdle /\ ExtractIdle /\ LogIdle /\ ScanIdle /\ ClientIdle
    /\ SizeIdle /\ TimelineIdle /\ EntriesIdle /\ PartIdle /\ PagesIdle

SpecCli == InitCli /\ [][NextCli]_vars

InitPart == PartStart /\ UsnIdle /\ MftIdle /\ RunIdle /\ NameIdle
    /\ PathIdle /\ CollectIdle /\ ExtractIdle /\ LogIdle /\ ScanIdle
    /\ ClientIdle /\ SizeIdle /\ TimelineIdle /\ EntriesIdle /\ CliIdle
    /\ PagesIdle

SpecPart == InitPart /\ [][NextPart]_vars

InitPages == PagesStart /\ UsnIdle /\ MftIdle /\ RunIdle /\ NameIdle
    /\ PathIdle /\ CollectIdle /\ ExtractIdle /\ LogIdle /\ ScanIdle
    /\ ClientIdle /\ SizeIdle /\ TimelineIdle /\ EntriesIdle /\ CliIdle
    /\ PartIdle

SpecPages == InitPages /\ [][NextPages]_vars

\* The generator is driven by a consumer that keeps pulling.
FairSpecPages == SpecPages /\ WF_vars(NextPages)

(***************************************************************************)
(* Claims about UsnJrnlParser.iter_records                                 *)
(***************************************************************************)
\* C1: iter_records is a finite sequence: on every finite input file the
\* generator is exhausted after finitely many steps.
UsnTerminates == <>(usn_pc = "done")

\* A record as Windows writes it: padded to 8 bytes, version 2, or version 3
\* with room for its 76-byte header.
WellFormedRec(seg) ==
    /\ seg.k = "rec"
    /\ seg.n % 8 = 0
    /\ seg.ver = 2 \/ (seg.ver = 3 /\ seg.n >= MIN_RECORD_SIZE_V3)

\* An 8-byte-aligned run of zeros (possibly empty) followed by contiguous
\* well-formed records.
SparsePrefixPlan(plan) ==
    /\ Len(plan) >= 1
    /\ \E z \in 0..1 :
          /\ z < Len(plan)
          /\ \A i \in 1..z : plan[i].k = "zeros"
          /\ \A i \in (z + 1)..Len(plan) : WellFormedRec(plan[i])

\* The offset at which segment i of the plan starts in the file.
RECURSIVE SegOffset(_, _)
SegOffset(plan, i) ==
    IF i = 1 THEN 0 ELSE SegOffset(plan, i - 1) + Len(SegBytes(plan[i - 1]))

RECURSIVE RecordsOfPlan(_, _)
RecordsOfPlan(plan, i) ==
    IF i > Len(plan) THEN << >>
    ELSE (IF plan[i].k = "rec"
          THEN <<[offset |-> SegOffset(plan, i),
                  record_length |-> plan[i].n,
                  major_version |-> plan[i].ver]>>
          ELSE << >>) \o RecordsOfPlan(plan, i + 1)

\* C2: for zeros followed by contiguous valid records, every record is
\* emitted exactly once, in file order, wherever the refill boundaries fall.
UsnSparsePrefixEmitsAll ==
    (usn_pc = "done" /\ SparsePrefixPlan(usn_plan))
        => usn_out = RecordsOfPlan(usn_plan, 1)

\* C3: every record emitted starts at a file offset that is a multiple of 8.
UsnRecordsAligned ==
    \A i \in 1..Len(usn_out) : usn_out[i].offset % 8 = 0

(***************************************************************************)
(* Claims about MFTEntry.parse                                             *)
(***************************************************************************)
\* The sectors of the entry that its fixup array covers.
CoveredSectors(data) ==
    {i \in 1..(U16(data, 6) - 1) : i * SECTOR_SIZE <= Len(data)}

\* C4: an entry is accepted only if, before substitution, the two bytes at
\* the tail of every sector covered by its fixup array equal the signature
\* word at fixup_offset.
MftAcceptedOnlyIfTailsMatch ==
    (mft_pc = "parsed" /\ is_valid) =>
        LET orig == PlanEntry(mft_plan)
        IN  \A i \in CoveredSectors(orig) :
                Slice(orig, i * SECTOR_SIZE - 2, i * SECTOR_SIZE)
                    = Slice(orig, U16(orig, 4), U16(orig, 4) + 2)

(***************************************************************************)
(* Claims about MFTEntry._parse_data_runs                                  *)
(***************************************************************************)
\* The value of a little-endian field read as an unsigned number.
RefUnsigned(bs) ==
    LET term(i) == bs[i] * Pow2(8 * (i - 1))
        sum[i \in 0..Len(bs)] == IF i = 0 THEN 0 ELSE sum[i - 1] + term(i)
    IN  sum[Len(bs)]

\* The same field read as a two's-complement number of its own width.
RefSigned(bs) ==
    LET u == RefUnsigned(bs)
        m == Pow2(8 * Len(bs))
    IN  IF 2 * u >= m THEN u - m ELSE u

\* The reference decoder: header byte H with low nibble L and high nibble O,
\* L bytes of unsigned length, O bytes of signed delta; the start LCN of a
\* non-sparse run is the running sum of the deltas; a run with O = 0 is
\* sparse and adds no delta. With stopAtL0 it also stops at a header whose
\* length nibble is 0. It stops at H = 0 and where the data ends.
RECURSIVE RefRuns(_, _, _)
RefRuns(d, lcn, stopAtL0) ==
    IF d = << >> \/ Head(d) = 0 THEN << >>
    ELSE LET L == Head(d) % 16
             O == Head(d) \div 16
         IN  IF Len(d) < 1 + L + O \/ (stopAtL0 /\ L = 0) THEN << >>
             ELSE LET len == RefUnsigned(SubSeq(d, 2, 1 + L))
                      rest == SubSeq(d, 2 + L + O, Len(d))
                  IN  IF O = 0
                      THEN <<[sparse |-> TRUE, length |-> len,
                              start_lcn |-> 0]>>
                               \o RefRuns(rest, lcn, stopAtL0)
                      ELSE LET lcn2 ==
                                   lcn + RefSigned(SubSeq(d, 2 + L, 1 + L + O))
                           IN  <<[sparse |-> FALSE, length |-> len,
                                  start_lcn |-> lcn2]>>
                                   \o RefRuns(rest, lcn2, stopAtL0)

\* The run list of the source in the reference decoder's terms.
RunsDecoded ==
    [i \in 1..Len(runs) |->
        [sparse |-> runs[i].sparse, length |-> runs[i].length,
         start_lcn |-> IF runs[i].sparse THEN 0 ELSE runs[i].start_cluster]]

\* C5 as stated: _parse_data_runs returns the run list of the reference
\* decoder, whose decoding stops at H = 0x00.
RunsAreReferenceRuns ==
    run_pc = "done" => RunsDecoded = RefRuns(run_data, 0, FALSE)

\* C5 as amended: _parse_data_runs returns the run list of the reference
\* decoder that stops at H = 0x00, at a header whose length nibble is 0, and
\* at a run whose fields reach past the end of the data.
RunsAreReferenceRunsStoppingAtL0 ==
    run_pc = "done" => RunsDecoded = RefRuns(run_data, 0, TRUE)

\* Header 0x33, length 00 00 01, offset 00 00 FF decoded from prior LCN 0.
SeedRunDecoded ==
    /\ run_pc = "done"
    /\ run_data = SeedRun
    /\ runs = <<[start_cluster |-> -65536, length |-> 65536,
                 sparse |-> FALSE]>>

(***************************************************************************)
(* Claims about the $FILE_NAME choice of MFTEntry.to_record                *)
(***************************************************************************)
\* The positions of the $FILE_NAME attributes whose namespace is in ns.
NamesIn(attrs, ns) ==
    {i \in 1..Len(attrs) :
        attrs[i].type = FILE_NAME /\ GetNamespace(attrs[i]) \in ns}

\* The ranking Win32 / Win32+DOS > POSIX > DOS, first occurrence within a rank.
RankedChoice(attrs) ==
    IF NamesIn(attrs, {WIN32, WIN32_AND_DOS}) # {}
    THEN Min(NamesIn(attrs, {WIN32, WIN32_AND_DOS}))
    ELSE IF NamesIn(attrs, {POSIX}) # {} THEN Min(NamesIn(attrs, {POSIX}))
    ELSE IF NamesIn(attrs, {DOS}) # {} THEN Min(NamesIn(attrs, {DOS}))
    ELSE 0

\* C6: the $FILE_NAME chosen follows the ranking Win32 / Win32+DOS > POSIX >
\* DOS for every order of the attributes, first occurrence within a rank.
NameChoiceFollowsRanking ==
    fn_pc = "done" => best_filename = RankedChoice(fn_attrs)

(***************************************************************************)
(* Claims about MFTParser.build_path_cache                                 *)
(***************************************************************************)
\* An entry whose path the rules give without its parent's path.
RuleEndsAt(e) ==
    \/ e = ROOT_ENTRY
    \/ parent_map[e] = ROOT_ENTRY
    \/ parent_map[e] = e
    \/ parent_map[e] \notin DOMAIN name_map

\* The entries of name_map on the parent chain of e, e included, following
\* parent references until a rule ends the chain or an entry repeats.
RECURSIVE ChainFrom(_, _)
ChainFrom(e, seen) ==
    IF e \notin DOMAIN name_map \/ e \in seen THEN seen
    ELSE IF RuleEndsAt(e) THEN seen \cup {e}
    ELSE ChainFrom(parent_map[e], seen \cup {e})

\* The parent chain of e runs into a cycle.
RECURSIVE ChainCycles(_, _)
ChainCycles(e, seen) ==
    IF e \in seen THEN TRUE
    ELSE IF RuleEndsAt(e) THEN FALSE
    ELSE ChainCycles(parent_map[e], seen \cup {e})

\* The path the resolver rules give to an entry whose chain has no cycle.
RECURSIVE RulePath(_)
RulePath(e) ==
    IF e = ROOT_ENTRY THEN <<Backslash>>
    ELSE IF parent_map[e] = ROOT_ENTRY THEN <<Backslash>> \o name_map[e]
    ELSE IF parent_map[e] = e \/ parent_map[e] \notin DOMAIN name_map
         THEN <<Backslash>> \o name_map[e]
    ELSE RulePath(parent_map[e]) \o <<Backslash>> \o name_map[e]

\* C7: for every in-use entry whose parent chain has no cycle, the stored
\* path obeys the rules: entry 5 maps to "\"; a child of 5 maps to "\name";
\* a self-parent or an entry with a missing parent maps to "\name"; any
\* other entry maps to parent_path + "\" + name. Every such entry has its
\* path when build_path_cache is done.
PathsObeyRules ==
    /\ \A e \in DOMAIN path_cache :
           ~ChainCycles(e, {}) => path_cache[e] = RulePath(e)
    /\ path_pc = "done" => DOMAIN path_cache = DOMAIN name_map

\* build_path_cache is done on a map with the chain 8 -> 7 -> 6 -> 5.
DeepChainResolved ==
    /\ path_pc = "done"
    /\ parent_map[ROOT_ENTRY + 3] = ROOT_ENTRY + 2
    /\ parent_map[ROOT_ENTRY + 2] = ROOT_ENTRY + 1
    /\ parent_map[ROOT_ENTRY + 1] = ROOT_ENTRY
    /\ \A e \in OtherEntries : name_map[e] = <<e>>
    /\ path_cache[ROOT_ENTRY + 3] =
           <<Backslash, ROOT_ENTRY + 1, Backslash, ROOT_ENTRY + 2,
             Backslash, ROOT_ENTRY + 3>>

\* Within one traversal no entry is expanded twice.
NoEntryExpandedTwice ==
    \A i, j \in 1..Len(expanded_log) :
        expanded_log[i] = expanded_log[j] => i = j

\* The calls of path_stack that are resolving: those that got past the
\* cache, the map and the visited tests.  The innermost call has not got
\* past them while path_pc is "call".
Resolving ==
    IF path_pc = "call" THEN SubSeq(path_stack, 1, Len(path_stack) - 1)
    ELSE path_stack

\* For every resolving call, the resolving calls nested in it, itself
\* included, are no more than the distinct entries on its parent chain.
DepthWithinChain ==
    \A i \in 1..Len(Resolving) :
        Len(Resolving) - i + 1 <= Cardinality(ChainFrom(Resolving[i], {}))

\* C8: path reconstruction terminates for every parent map, cyclic ones
\* included: within one traversal no entry is expanded twice, and the
\* number of nested resolution steps for an entry never exceeds the number
\* of distinct entries on its parent chain.
PathReconstructionTerminates ==
    /\ [](NoEntryExpandedTwice /\ DepthWithinChain)
    /\ <>(path_pc = "done")

\* build_path_cache is done on a map with the cycle 6 -> 7 -> 8 -> 6.
CycleOfThreeResolved ==
    /\ path_pc = "done"
    /\ parent_map[ROOT_ENTRY + 1] = ROOT_ENTRY + 2
    /\ parent_map[ROOT_ENTRY + 2] = ROOT_ENTRY + 3
    /\ parent_map[ROOT_ENTRY + 3] = ROOT_ENTRY + 1
    /\ DOMAIN path_cache = DOMAIN name_map

(***************************************************************************)
(* Claims about the $J run list of _extract_usnjrnl_j_stream               *)
(***************************************************************************)
\* The runs of the $J extents, each once, in ascending start_vcn.
RunsInVcnOrder == ExtendRuns(<< >>, [k \in Extents |-> k])

\* C9: when $UsnJrnl has an $ATTRIBUTE_LIST, the run list assembled for $J
\* holds the runs of every $DATA extent named $J exactly once and in
\* ascending start_vcn order, whatever the order of the attribute-list
\* entries and whether or not several extents live in one child record.
JRunsOnceInVcnOrder ==
    (/\ j_base = "list"
     /\ j_pc \in {"collected", "extract", "failed"}
     /\ \A r \in ChildRecords : record_parses[r])
        => all_data_runs = RunsInVcnOrder

(***************************************************************************)
(* Claims about _extract_from_data_runs                                    *)
(***************************************************************************)
\* The bytes of the clusters first..first+n-1 of the image.
RECURSIVE RealBytes(_, _)
RealBytes(first, n) ==
    IF n = 0 THEN << >>
    ELSE ClusterData(first) \o RealBytes(first + 1, n - 1)

\* The stream the runs describe: zeros for a sparse run, the bytes of its
\* clusters for any other run, every run at ClusterSize times the clusters
\* before it.
RECURSIVE StreamOf(_)
StreamOf(rs) ==
    IF rs = << >> THEN << >>
    ELSE (IF Head(rs).sparse
          THEN [j \in 1..(Head(rs).length * ClusterSize) |-> 0]
          ELSE RealBytes(Head(rs).start_cluster, Head(rs).length))
         \o StreamOf(Tail(rs))

\* Every cluster of every run is in the image.
RunsInImage ==
    \A i \in 1..Len(data_runs) :
        data_runs[i].start_cluster + data_runs[i].length <= ImageClusters

\* C10: $J extraction preserves file offsets: a sparse run of n clusters
\* gives n * cluster_size zero bytes and any other run gives the bytes of
\* its clusters, so that run k starts at cluster_size times the lengths of
\* the runs before it, up to the truncation point.
ExtractPreservesOffsets ==
    (extract_pc = "done" /\ RunsInImage) =>
        /\ Len(out_file) <= Len(StreamOf(data_runs))
        /\ out_file = SubSeq(StreamOf(data_runs), 1, Len(out_file))
        /\ size_limit > 0 =>
               Len(out_file) = Min({size_limit, Len(StreamOf(data_runs))})

\* C11: the extracted $J output is truncated to real_size: for every run
\* list and every real_size value, the number of bytes written never
\* exceeds real_size.
WrittenWithinRealSize ==
    /\ written <= size_limit
    /\ Len(out_file) <= size_limit

(***************************************************************************)
(* Claims about the record pages of $LogFile                               *)
(***************************************************************************)
\* C12: within a record page, scanning stops when this_lsn == 0 or when the
\* computed end of a record (offset + 88 + client_data_length) exceeds the
\* page: no log record whose computed end lies beyond the page is emitted.
LogRecordsEndInPage ==
    \A i \in 1..Len(log_out) :
        log_out[i].offset + LOG_RECORD_HEADER_SIZE + log_out[i].client_data_length
            <= Len(log_data)

\* The sum of the 8-byte-aligned lengths of the records rs.
RECURSIVE AlignedLengths(_)
AlignedLengths(rs) ==
    IF rs = << >> THEN 0
    ELSE Align8(LOG_RECORD_HEADER_SIZE + Head(rs).client_data_length)
             + AlignedLengths(Tail(rs))

\* C13: for every record page, the sum of the 8-byte-aligned lengths of the
\* log records parsed from it never exceeds the page header's
\* next_record_offset.
LogLengthsWithinNextRecordOffset ==
    page_is_valid => AlignedLengths(log_out) <= next_record_offset

(***************************************************************************)
(* Claims about _scan_for_filename                                         *)
(***************************************************************************)
\* A candidate: a $FILE_NAME that lies in the payload at offset, with
\* namespace byte <= 3, name length in 1..255, parent entry below 2^40 and
\* a decoded name that is not empty and fully printable.
IsCandidate(data, offset) ==
    IF offset + FN_NAME_OFFSET > Len(data) THEN FALSE
    ELSE IF ~(1 <= data[offset + 65] /\ data[offset + 65] <= 255 /\ data[offset + 66] <= 3)
    THEN FALSE
    ELSE IF offset + FN_NAME_OFFSET + 2 * data[offset + 65] > Len(data) THEN FALSE
    ELSE /\ CandidateName(data, offset) # << >>
         /\ \A k \in 1..Len(CandidateName(data, offset)) :
                IsPrintable(CandidateName(data, offset)[k])
         /\ ParentEntryBelow2p40(data, offset)

\* The 8-byte-aligned offsets of the candidates of a payload.
CandidateOffsets(data) ==
    {o \in 0..Len(data) : o % 8 = 0 /\ IsCandidate(data, o)}

\* C14: the fallback scan examines the 8-byte-aligned offsets in ascending
\* order and accepts the first candidate, and exactly the candidates, whose
\* namespace byte is <= 3, whose name length is in 1..255, whose parent
\* entry is below 2^40 and whose decoded name is fully printable.
ScanTakesFirstCandidate ==
    scan_pc = "done" =>
        IF CandidateOffsets(scan_data) = {}
        THEN scan_filename = << >>
        ELSE /\ scan_filename # << >>
             /\ scan_offset = Min(CandidateOffsets(scan_data))
             /\ scan_filename = CandidateName(scan_data, Min(CandidateOffsets(scan_data)))

(***************************************************************************)
(* Claims about _parse_client_data                                         *)
(***************************************************************************)
\* The redo window of the record holds a well-formed index entry: its
\* lengths are set, the entry of its file reference is below 2^40, its
\* $FILE_NAME has a namespace byte <= 3 and a name of 1..255 printable
\* characters.
WellFormedIndexEntry(plan) ==
    /\ plan.redo_window = "entry"
    /\ plan.entry_len_set
    /\ plan.file_ref[6] = 0
    /\ plan.namespace <= 3
    /\ Len(plan.name) >= 1
    /\ \A k \in 1..Len(plan.name) : plan.name[k] = <<65, 0>>

\* The result the claim gives for a record of the plan.
IndexEntryDecoded(plan, rec) ==
    /\ rec.filename = [k \in 1..Len(plan.name) |-> 65]
    /\ rec.file_reference = plan.file_ref
    /\ rec.event = OpcodeName(plan.redo_op)

\* C15: for a log record whose redo opcode is in {0x0C, 0x0D, 0x0E, 0x0F,
\* 0x10, 0x12} and whose redo window holds a well-formed index entry, the
\* decoded filename is the $FILE_NAME name at offset 0x10 of that window,
\* file_reference is the window's first 8 bytes, and the event label is
\* the opcode name.
IndexEntryFilenameDecoded ==
    (/\ client_pc = "done"
     /\ client_plan.redo_op \in filename_ops
     /\ WellFormedIndexEntry(client_plan))
        => IndexEntryDecoded(client_plan, log_record)

(***************************************************************************)
(* Claims about the data size of a record                                  *)
(***************************************************************************)
\* The unnamed $DATA attribute of the entry is non-resident and its
\* header is complete: 64 bytes in a first extent, 48 in a continuation.
NonResidentUnnamedData(plan) ==
    /\ plan.main.name = ""
    /\ plan.main.non_resident
    /\ plan.main.length >= (IF plan.main.start_vcn = 0 THEN 64 ELSE 48)

\* C16: the data size of a record whose unnamed $DATA attribute is
\* non-resident is that attribute's real_size when start_vcn = 0; when
\* start_vcn # 0 it is the real_size of the first (VCN-0) extent, not a
\* value of the continuation's own header.
DataSizeIsRealSizeOfFirstExtent ==
    (size_pc = "done" /\ NonResidentUnnamedData(size_plan))
        => data_size = (IF size_plan.main.start_vcn = 0
                        THEN size_plan.main.real_size
                        ELSE size_plan.first_extent_real_size)

(***************************************************************************)
(* Claims about _iter_all_records                                          *)
(***************************************************************************)
\* The place of a source in the concatenation MFT, UsnJrnl, LogFile.
SourceRank(source) ==
    CASE source = "MFT" -> 1 [] source = "UsnJrnl" -> 2 [] source = "LogFile" -> 3

\* C17: in the output of _iter_all_records every MFT event precedes every
\* UsnJrnl event and every UsnJrnl event precedes every LogFile event, and
\* within each source the events keep the order in which the decoder of
\* that source produced its records.
TimelineIsConcatenation ==
    \A i, j \in 1..Len(timeline) :
        i < j =>
            /\ SourceRank(timeline[i].source) <= SourceRank(timeline[j].source)
            /\ timeline[i].source = timeline[j].source
                   => timeline[i].rec <= timeline[j].rec

\* All three sources have put two events or more on the timeline.
AllSourcesOnTimeline ==
    /\ timeline_pc = "done"
    /\ \A s \in {"MFT", "UsnJrnl", "LogFile"} :
           \E i, j \in 1..Len(timeline) :
               /\ i < j
               /\ timeline[i].source = s
               /\ timeline[j].source = s
               /\ timeline[i].rec < timeline[j].rec

\* The places on the timeline of the events `event` of the r-th MFT record.
MftEventsOf(r, event) ==
    {i \in 1..Len(timeline) :
        /\ timeline[i].source = "MFT"
        /\ timeline[i].rec = r
        /\ timeline[i].event = event}

\* C18: for each MFT record the timeline holds at most one create event
\* and at most one modify event; the modify event is there only if the SI
\* modify time is distinct from the SI create time; when both are there
\* the create event comes immediately before the modify event.
CreateThenModifyPerRecord ==
    \A r \in 1..Len(timeline_plan.mft_records) :
        LET creates == MftEventsOf(r, "FileCreate (SI)")
            modifies == MftEventsOf(r, "FileModify (SI)")
        IN  /\ Cardinality(creates) <= 1
            /\ Cardinality(modifies) <= 1
            /\ modifies # {} => timeline_plan.mft_records[r][2]
                                    # timeline_plan.mft_records[r][1]
            /\ (creates # {} /\ modifies # {})
                   => \E i \in creates : i + 1 \in modifies

\* One record has put both events on the timeline, and a record whose two
\* times are equal has put its create event only.
CreateAndModifyEmitted ==
    /\ timeline_pc = "done"
    /\ \E r \in 1..Len(timeline_plan.mft_records) :
           /\ MftEventsOf(r, "FileCreate (SI)") # {}
           /\ MftEventsOf(r, "FileModify (SI)") # {}
    /\ \E r \in 1..Len(timeline_plan.mft_records) :
           /\ timeline_plan.mft_records[r][1] = timeline_plan.mft_records[r][2]
           /\ MftEventsOf(r, "FileCreate (SI)") # {}
           /\ MftEventsOf(r, "FileModify (SI)") = {}

\* C20: during one unified analysis run with MFT and UsnJrnl both supplied
\* the MFT path cache is built once, and after it is built no layer adds,
\* removes or changes an entry of it.  The first half: build_path_cache
\* runs at most once.
PathCacheBuiltOnce ==
    (timeline_pc # "idle" /\ timeline_plan.mft = "present" /\ timeline_plan.usn)
        => cache_builds <= 1

\* The second half of C20: a cache that has been built keeps its entries.
PathCacheKeptAfterBuild ==
    [][/\ timeline_pc \notin {"idle", "MFT"} /\ timeline_plan.mft = "present"
           => mft_path_cache' = mft_path_cache
       /\ timeline_pc \notin {"idle", "MFT", "mft_create", "mft_modify", "UsnJrnl"}
          /\ timeline_plan.mft = "present" /\ timeline_plan.usn
           => usn_path_cache' = usn_path_cache]_vars

(***************************************************************************)
(* Claims about MFTParser.iter_entries                                     *)
(***************************************************************************)
\* The slots the iteration is to yield: signed FILE, and in use unless
\* deleted records are asked for.
SlotsToYield(plan) ==
    {i \in 1..Len(plan.slots) :
        /\ plan.slots[i].signature = MFT_SIGNATURE
        /\ plan.include_deleted \/ plan.slots[i].in_use}

\* C19: iter_entries emits no record for a slot whose signature is not
\* FILE and goes on with the next slot; the entry_number of every record
\* is the zero-based index of its slot, so the records come in strictly
\* ascending entry_number and a skipped slot does not shift the numbers of
\* later ones; a short read at the end of the file ends the sequence.
EntriesNumberedBySlot ==
    /\ \A k \in 1..Len(entries_out) :
           /\ entries_out[k].signature = MFT_SIGNATURE
           /\ entries_out[k].entry_number = entries_out[k].slot
           /\ k > 1 => entries_out[k - 1].entry_number < entries_out[k].entry_number
    /\ entries_pc = "done" =>
           /\ entries_pos = Len(entries_plan.slots)
           /\ {entries_out[k].slot + 1 : k \in 1..Len(entries_out)}
                  = SlotsToYield(entries_plan)

\* The file ends in a partial slot, and a FILE slot behind a BAAD slot and
\* a zero slot was yielded.
RecordAfterSkippedSlots ==
    /\ entries_pc = "done"
    /\ entries_plan.partial_tail
    /\ Len(entries_plan.slots) = 3
    /\ entries_plan.slots[1].signature = MFT_SIGNATURE_BAD
    /\ entries_plan.slots[2].signature = <<0, 0, 0, 0>>
    /\ Len(entries_out) = 1
    /\ entries_out[1].entry_number = 2

(***************************************************************************)
(* Claims about the subcommands                                            *)
(***************************************************************************)
\* The path arguments that the subcommand of the plan takes.
GivenPaths(plan) ==
    CASE plan.command = "analyze" -> {plan.mft, plan.usnjrnl, plan.logfile}
      [] plan.command = "parse-usnjrnl" -> {plan.input, plan.mft}
      [] OTHER -> {plan.input}

\* An exception was raised in the run of the plan.
RunRaised(plan) ==
    CASE plan.command \in ExtractCommands ->
             plan.input = "present"
             /\ \/ plan.fails \in {"open", "probe"}
                \/ plan.fails = "work" /\ partition_index < PartitionsToProcess(plan)
      [] plan.command = "analyze" ->
             plan.fails = "work" /\ GivenPaths(plan) # {"none"}
      [] OTHER -> plan.input = "present" /\ plan.fails = "work"

\* C21: every subcommand returns 1 whenever an input path it was given
\* does not exist, and returns 0 only when no failure occurred.
ExitCodeReportsFailure ==
    cli_pc = "done" =>
        /\ "missing" \in GivenPaths(cli_plan) => exit_code = 1
        /\ exit_code = 0 => /\ "missing" \notin GivenPaths(cli_plan)
                            /\ ~RunRaised(cli_plan)

\* C22: in extract and extract-analyze the image handle opened for the run
\* is closed on every exit path: normal completion, the early return for
\* an invalid partition index, and an exception raised while probing
\* partitions or extracting; after the command returns no image handle
\* remains open.
ImageHandleClosedOnReturn ==
    /\ cli_pc = "done" => ~handle_open
    /\ cli_pc \in {"probe", "select", "extract"} => handle_open

\* An extraction that opened the image and raised in its loop has returned.
ExtractRaisedAndReturned ==
    /\ cli_pc = "done"
    /\ cli_plan.command \in ExtractCommands
    /\ cli_plan.input = "present"
    /\ cli_plan.fails = "work"
    /\ cli_plan.target = 1
    /\ cli_plan.partitions = 2
    /\ exit_code = 1

\* The offset fields of the runs that the reference decoder reads from d,
\* in order: the signed value of the field, and sparse where there is none.
RECURSIVE RefOffsetFields(_)
RefOffsetFields(d) ==
    IF d = << >> \/ Head(d) = 0 THEN << >>
    ELSE LET L == Head(d) % 16
             O == Head(d) \div 16
         IN  IF Len(d) < 1 + L + O \/ L = 0 THEN << >>
             ELSE <<[sparse |-> O = 0,
                     field |-> IF O = 0 THEN 0
                               ELSE RefSigned(SubSeq(d, 2 + L, 1 + L + O))]>>
                      \o RefOffsetFields(SubSeq(d, 2 + L + O, Len(d)))

\* The start LCN of the nearest non-sparse run before run k, 0 when there
\* is none.
PriorLcn(k) ==
    LET before == {i \in 1..(k - 1) : ~runs[i].sparse}
    IN  IF before = {} THEN 0
        ELSE runs[CHOOSE i \in before : \A j \in before : j <= i].start_cluster

\* C23 as stated: in every run list returned by _parse_data_runs, for
\* every pair of consecutive runs whose second run has a negative offset
\* field, the start LCN of the second run is strictly less than the start
\* LCN of the first run.
NegativeOffsetLowersLcnOfPair ==
    (run_pc = "done" /\ Len(RefOffsetFields(run_data)) = Len(runs))
        => \A k \in 2..Len(runs) :
               RefOffsetFields(run_data)[k].field < 0
                   => runs[k].start_cluster < runs[k - 1].start_cluster

\* C23 as amended: in every run list returned by _parse_data_runs, the
\* start LCN of every run with a negative offset field is strictly less
\* than the start LCN of the nearest non-sparse run before it, and than 0
\* when there is none.
NegativeOffsetLowersLcn ==
    run_pc = "done" =>
        /\ Len(RefOffsetFields(run_data)) = Len(runs)
        /\ \A k \in 1..Len(runs) :
               RefOffsetFields(run_data)[k].field < 0
                   => runs[k].start_cluster < PriorLcn(k)

\* A run with a negative offset field was decoded behind a sparse run.
NegativeRunAfterSparseDecoded ==
    /\ run_pc = "done"
    /\ run_data = SparseGapRun
    /\ Len(runs) = 3
    /\ runs[2].sparse
    /\ runs[3].start_cluster = 0

\* C24: every path that build_path_cache stores for an entry is non-empty
\* and starts with "\", for every MFT content including entries with empty
\* names, missing parents and parent cycles.
StoredPathsStartWithBackslash ==
    \A e \in DOMAIN path_cache :
        /\ path_cache[e] # << >>
        /\ path_cache[e][1] = Backslash

\* build_path_cache is done on a map with the cycle 6 -> 7 -> 6, an entry
\* whose parent is not in use, and empty names.
CycleAndMissingParentResolved ==
    /\ path_pc = "done"
    /\ parent_map[ROOT_ENTRY + 1] = ROOT_ENTRY + 2
    /\ parent_map[ROOT_ENTRY + 2] = ROOT_ENTRY + 1
    /\ parent_map[ROOT_ENTRY + 3] = NotInUse
    /\ name_map[ROOT_ENTRY + 1] = << >>
    /\ name_map[ROOT_ENTRY + 3] = << >>
    /\ DOMAIN path_cache = DOMAIN name_map

\* The path of entry e resolved alone: get_path(e) on an empty cache.
RECURSIVE ResolvedAlone(_, _)
ResolvedAlone(e, seen) ==
    IF e \notin DOMAIN name_map \/ e \in seen THEN << >>
    ELSE IF e = ROOT_ENTRY THEN <<Backslash>>
    ELSE IF parent_map[e] = ROOT_ENTRY \/ parent_map[e] = e
         THEN <<Backslash>> \o name_map[e]
    ELSE LET parent_path == ResolvedAlone(parent_map[e], seen \cup {e})
         IN  IF parent_path # << >>
             THEN parent_path \o <<Backslash>> \o name_map[e]
             ELSE <<Backslash>> \o name_map[e]

\* C29: memoization in the path resolver is transparent: for every entry,
\* the path that build_path_cache stores equals the path obtained by
\* resolving that entry alone starting from an empty cache, including
\* entries on or below a parent cycle.
MemoizationIsTransparent ==
    \A e \in DOMAIN path_cache : path_cache[e] = ResolvedAlone(e, {})

\* ---- C25: every partition that parse_boot_sector accepts and
\* find_ntfs_partitions returns has a cluster_size that is a power of two
\* and an mft_entry_size that is a multiple of 2.
IsPowerOfTwo(n) == \E k \in 0..30 : n = ShiftLeftOne(k)

AcceptedGeometryIsSound ==
    \A k \in DOMAIN partitions :
        /\ IsPowerOfTwo(partitions[k].cluster_size)
        /\ partitions[k].mft_entry_size % 2 = 0

\* ---- C30: when sector 0 of the image is an NTFS boot sector, the list
\* find_ntfs_partitions returns holds a partition at offset 0.
SectorZeroIsNtfs == BootSectorAccepted(Read(part_plan, 0, 512))

BareVolumeIsFound ==
    (part_pc = "done" /\ SectorZeroIsNtfs) =>
        \E k \in DOMAIN partitions : partitions[k].offset = 0

\* ---- C26: applying fixup to a block with fixup-array offset f and count c
\* replaces the last two bytes of each of its c-1 sectors i with the two
\* bytes at f + 2i and leaves every other byte unchanged, and MFT entries,
\* RSTR/RCRD pages and INDX blocks get the same result on the same block.
\* The first part is stated for a block that holds its whole fixup array.
FixupArrayInBlock(data) == U16(data, 4) + 2 * U16(data, 6) <= Len(data)

\* Byte p (zero-based) of the block `orig` once the rule has been applied.
ByteAfterRule(orig, p) ==
    LET f == U16(orig, 4)
        c == U16(orig, 6)
        i == (p \div SECTOR_SIZE) + 1
    IN  IF p % SECTOR_SIZE >= SECTOR_SIZE - 2 /\ i <= c - 1
        THEN orig[f + 2 * i + (p % SECTOR_SIZE) - (SECTOR_SIZE - 2) + 1]
        ELSE orig[p + 1]

FixupReplacesSectorTails ==
    (mft_pc = "parsed" /\ FixupArrayInBlock(PlanEntry(mft_plan))) =>
        /\ Len(mft_data) = MFT_ENTRY_SIZE
        /\ \A p \in 0..(MFT_ENTRY_SIZE - 1) :
               mft_data[p + 1] = ByteAfterRule(PlanEntry(mft_plan), p)

FixupRuleIsShared ==
    mft_pc = "parsed" =>
        /\ PageAfterFixup(PlanEntry(mft_plan)) = mft_data
        /\ ApplyFixupToIndex(PlanEntry(mft_plan)) = mft_data

FixupIsOneRule == FixupReplacesSectorTails /\ FixupRuleIsShared

\* ---- C27: the attribute walk visits attributes at strictly increasing
\* offsets from the attribute offset of the header, each visited attribute
\* starting where the one before it ends; it stops exactly at the first
\* offset where the type is 0xFFFFFFFF, the length is 0, the length exceeds
\* the bytes that remain, or used_size or the end of the entry is reached;
\* no visited attribute extends past the end of the entry, and the number of
\* visits is bounded by the size of the entry.
WalkEndsAt(o) ==
    IF o >= U32(mft_data, 24) THEN TRUE
    ELSE IF o + 8 > Len(mft_data)
    THEN TRUE
    ELSE \/ IsFFFFFFFF(mft_data, o)
         \/ U32(mft_data, o + 4) = 0
         \/ U32(mft_data, o + 4) > Len(mft_data) - o

WalkEnd ==
    IF attr_visits = << >> THEN U16(mft_data, 20)
    ELSE attr_visits[Len(attr_visits)].offset
             + attr_visits[Len(attr_visits)].length

AttributeWalkIsExact ==
    mft_pc = "parsed" =>
        /\ attr_visits # << >> => attr_visits[1].offset = U16(mft_data, 20)
        /\ \A k \in 1..(Len(attr_visits) - 1) :
               /\ attr_visits[k + 1].offset =
                      attr_visits[k].offset + attr_visits[k].length
               /\ attr_visits[k + 1].offset > attr_visits[k].offset
        /\ \A k \in DOMAIN attr_visits :
               /\ ~WalkEndsAt(attr_visits[k].offset)
               /\ attr_visits[k].length = U32(mft_data, attr_visits[k].offset + 4)
               /\ attr_visits[k].offset + attr_visits[k].length <= Len(mft_data)
        /\ WalkEndsAt(WalkEnd)
        /\ Len(attr_visits) <= Len(mft_data)

\* A parsed entry whose walk visited two attributes, the first too short to
\* be kept, and ended on a zero length.
TwoAttributesWalked ==
    /\ mft_pc = "parsed"
    /\ Len(attr_visits) = 2
    /\ Len(attributes) = 1
    /\ U32(mft_data, WalkEnd + 4) = 0

\* ---- C28: iter_records emits nothing unless one of the first two 4 KiB
\* pages begins with RSTR; otherwise, with page_size = log_page_size when
\* non-zero else 4096, it examines exactly the pages at 2 * page_size,
\* 3 * page_size, ... that lie wholly inside the file, in ascending order,
\* emits records only from examined pages that start with RCRD, never from a
\* page of zeros, in ascending order of page and of offset within the page,
\* and it terminates.
RestartFound ==
    \/ SignatureAt(pages_plan, 0) = "RSTR"
    \/ SignatureAt(pages_plan, DEFAULT_PAGE_SIZE) = "RSTR"

ClaimedPageSize ==
    IF pages_plan.lps # 0 THEN pages_plan.lps ELSE DEFAULT_PAGE_SIZE

\* The number of pages at 2 * page_size and after that lie inside the file.
WholePages ==
    IF FileSize(pages_plan) \div ClaimedPageSize >= 2
    THEN (FileSize(pages_plan) \div ClaimedPageSize) - 2 ELSE 0

PagesAndRecordsInOrder ==
    pages_pc \in {"loop", "done"} =>
        /\ ~RestartFound => examined = << >> /\ emitted = << >>
        /\ \A k \in DOMAIN examined :
               /\ examined[k] = (k + 1) * ClaimedPageSize
               /\ examined[k] + ClaimedPageSize <= FileSize(pages_plan)
        /\ (pages_pc = "done" /\ RestartFound) => Len(examined) = WholePages
        /\ \A r \in DOMAIN emitted :
               /\ \E k \in DOMAIN examined : examined[k] = emitted[r].page
               /\ SignatureAt(pages_plan, emitted[r].page) = "RCRD"
        /\ \A r \in 1..(Len(emitted) - 1) :
               \/ emitted[r].page < emitted[r + 1].page
               \/ /\ emitted[r].page = emitted[r + 1].page
                  /\ emitted[r].offset < emitted[r + 1].offset

=============================================================================
